---------------------------- MODULE Spec2Model ----------------------------
(***************************************************************************)
(* RiceGuard AI backend: the detection endpoint, the model wrapper, the    *)
(* detection store with its history and delete endpoints, and the          *)
(* rule-based chatbot, modelled from backend/app.py and utils/predict.py   *)
(* as given in src/all_code.md.                                            *)
(*                                                                         *)
(* Text that the code inspects character by character (disease names,      *)
(* chatbot messages, intent keywords, class names of the detector) is a    *)
(* sequence of one-character strings; text the code only passes along      *)
(* (symptom lists, canned answers) is an atomic string.                    *)
(***************************************************************************)
EXTENDS Integers, Sequences, FiniteSets, TLC

VARIABLES
  detections,  \* rows of table "detections" (models.py, class Detection)
  feedback,    \* rows of table "feedback" (models.py, class Feedback)
  files,       \* paths of the files present on the server's disk
  model,       \* utils/predict.py global "model": 0 is None, k the k-th YOLO built
  clock,       \* reading of datetime.utcnow(), never decreasing
  last,        \* the last HTTP request served and its response
  pd,          \* one call of predict_disease: its input and what it returned
  chat,        \* one call of chatbot_response: its message and its response
  forum,       \* rows of table "forum_posts" (models.py, class ForumPost)
  localStorage,  \* the browser's localStorage: what riceguard_result holds
  uploadPage,    \* the upload page: js/upload.js and its DOM
  resultPage,    \* the result page: js/result.js and its DOM
  historyPage,   \* the history page: js/history.js, its DOM and its requests
  registerPage   \* the register page: the register logic of js/auth.js

\* the browser side
pages == <<localStorage, uploadPage, resultPage, historyPage, registerPage>>

vars == <<detections, feedback, files, model, clock, last, pd, chat, forum, pages>>

\* no call in progress
Idle == [pc |-> "idle"]

(***************************************************************************)
(* Bounds of the model.                                                    *)
(***************************************************************************)
MaxBoxes == 8
MaxFrags == 3
MaxId == 2
MaxClock == 1
MaxFeedback == 1
MaxNames == 1

(***************************************************************************)
(* Characters and the str methods the code calls.                          *)
(***************************************************************************)
UpperChars == <<"A","B","C","D","E","F","G","H","I","J","K","L","M",
                "N","O","P","Q","R","S","T","U","V","W","X","Y","Z">>
LowerChars == <<"a","b","c","d","e","f","g","h","i","j","k","l","m",
                "n","o","p","q","r","s","t","u","v","w","x","y","z">>

IsUpper(c) == \E i \in 1..Len(UpperChars) : UpperChars[i] = c
IsLower(c) == \E i \in 1..Len(LowerChars) : LowerChars[i] = c
IsCased(c) == IsUpper(c) \/ IsLower(c)
IsSpace(c) == c = " "

LowerChar(c) ==
  IF IsUpper(c) THEN LowerChars[CHOOSE i \in 1..Len(UpperChars) : UpperChars[i] = c] ELSE c
UpperChar(c) ==
  IF IsLower(c) THEN UpperChars[CHOOSE i \in 1..Len(LowerChars) : LowerChars[i] = c] ELSE c

\* str.lower()
Lower(s) == [i \in 1..Len(s) |-> LowerChar(s[i])]

\* str.strip(): leading and trailing whitespace removed
Strip(s) ==
  LET idx == {i \in 1..Len(s) : ~IsSpace(s[i])}
  IN  IF idx = {} THEN <<>>
      ELSE LET lo == CHOOSE i \in idx : \A j \in idx : i <= j
               hi == CHOOSE i \in idx : \A j \in idx : j <= i
           IN  SubSeq(s, lo, hi)

\* str.title(): a cased character is upper-cased when it starts a run of
\* cased characters and lower-cased otherwise
Title(s) ==
  [i \in 1..Len(s) |->
     IF i > 1 /\ IsCased(s[i-1]) THEN LowerChar(s[i]) ELSE UpperChar(s[i])]

\* Python's "sub in s" for strings
Contains(s, sub) ==
  \E i \in 0..(Len(s) - Len(sub)) : SubSeq(s, i + 1, i + Len(sub)) = sub

\* sep.join(list), kept as the list of its pieces
Join(sep, list) ==
  [i \in 1..(IF Len(list) = 0 THEN 0 ELSE 2 * Len(list) - 1) |->
     IF i % 2 = 1 THEN list[(i + 1) \div 2] ELSE sep]

(***************************************************************************)
(* utils/predict.py: DISEASE_INFO.  The keys in insertion order, the       *)
(* severity keys of each disease in insertion order, and the three text    *)
(* lists of each (disease, severity).                                      *)
(***************************************************************************)
Healthy == <<"H","e","a","l","t","h","y">>
RiceBlast == <<"R","i","c","e"," ","B","l","a","s","t">>
Blight == <<"B","l","i","g","h","t">>
BrownSpot == <<"B","r","o","w","n"," ","S","p","o","t">>
FalseSmut == <<"F","a","l","s","e"," ","S","m","u","t">>
LeafSmut == <<"L","e","a","f"," ","S","m","u","t">>
StemRot == <<"S","t","e","m"," ","R","o","t">>
Tungro == <<"T","u","n","g","r","o">>

DiseaseKeys ==
  <<Healthy, RiceBlast, Blight, BrownSpot, FalseSmut, LeafSmut, StemRot, Tungro>>

SeverityKeys(d) ==
  IF d = Healthy THEN <<"None">> ELSE <<"Mild", "Moderate", "Severe">>

DISEASE_INFO(d, s) ==
  CASE d = Healthy /\ s = "None" ->
       [symptoms   |-> <<>>,
        treatment  |-> <<>>,
        prevention |-> <<"Maintain proper irrigation", "Balanced fertilizer usage", "Regular crop monitoring", "Good field hygiene">>]
    [] d = RiceBlast /\ s = "Mild" ->
       [symptoms   |-> <<"Small diamond-shaped lesions", "Grey centers on leaves", "Limited spread", "Normal plant vigor">>,
        treatment  |-> <<"Monitor disease progression", "Preventive fungicide spray", "Avoid excess nitrogen", "Improve drainage">>,
        prevention |-> <<"Use resistant varieties", "Balanced fertilization", "Proper plant spacing", "Routine field inspection">>]
    [] d = RiceBlast /\ s = "Moderate" ->
       [symptoms   |-> <<"Larger lesions on multiple leaves", "Leaf tip drying", "Reduced photosynthesis", "Moderate yield loss">>,
        treatment  |-> <<"Spray Tricyclazole", "Maintain standing water", "Remove infected plants", "Apply potassium fertilizer">>,
        prevention |-> <<"Seed treatment", "Crop rotation", "Avoid dense planting", "Timely sowing">>]
    [] d = RiceBlast /\ s = "Severe" ->
       [symptoms   |-> <<"Neck blast infection", "Panicle breakage", "Severe stunting", "High yield loss">>,
        treatment  |-> <<"Immediate fungicide spraying", "Multiple spray schedule", "Destroy severely infected crop", "Consult agriculture expert">>,
        prevention |-> <<"Blast-resistant hybrids", "Strict nitrogen control", "Field sanitation", "Avoid infected fields">>]
    [] d = Blight /\ s = "Mild" ->
       [symptoms   |-> <<"Light yellow streaks", "Minor leaf wilting", "Small water-soaked lesions", "Normal tillering">>,
        treatment  |-> <<"Monitor spread", "Remove infected leaves", "Improve drainage", "Avoid excess nitrogen">>,
        prevention |-> <<"Certified seeds", "Balanced nutrition", "Proper spacing", "Crop rotation">>]
    [] d = Blight /\ s = "Moderate" ->
       [symptoms   |-> <<"Extended yellow-orange streaks", "Leaf rolling", "Reduced tillers", "Yield reduction">>,
        treatment  |-> <<"Copper-based bactericide", "Remove infected plants", "Improve water management", "Reduce nitrogen input">>,
        prevention |-> <<"Resistant varieties", "Field sanitation", "Weed control", "Seed treatment">>]
    [] d = Blight /\ s = "Severe" ->
       [symptoms   |-> <<"Complete leaf drying", "Severe wilting", "Panicle sterility", "Major yield loss">>,
        treatment  |-> <<"Immediate bactericide application", "Destroy infected crop", "Prevent further spread", "Expert consultation">>,
        prevention |-> <<"Disease-free seeds", "Avoid contaminated irrigation", "Strict field hygiene", "Crop rotation">>]
    [] d = BrownSpot /\ s = "Mild" ->
       [symptoms   |-> <<"Small brown spots", "Yellow halos", "No grain impact", "Normal growth">>,
        treatment  |-> <<"Improve soil nutrition", "Light fungicide spray", "Monitor field", "Avoid moisture stress">>,
        prevention |-> <<"Balanced fertilization", "Seed treatment", "Good drainage", "Healthy seedlings">>]
    [] d = BrownSpot /\ s = "Moderate" ->
       [symptoms   |-> <<"Larger circular lesions", "Leaf drying at tips", "Reduced grain quality", "Yield reduction">>,
        treatment  |-> <<"Spray Mancozeb", "Correct nutrient deficiency", "Remove infected leaves", "Improve irrigation">>,
        prevention |-> <<"Resistant varieties", "Crop rotation", "Soil health management", "Regular monitoring">>]
    [] d = BrownSpot /\ s = "Severe" ->
       [symptoms   |-> <<"Heavy leaf spotting", "Complete leaf drying", "Poor grain filling", "Severe yield loss">>,
        treatment  |-> <<"Immediate fungicide spraying", "Remove infected plants", "Soil correction", "Expert advice">>,
        prevention |-> <<"Balanced soil nutrients", "Seed treatment", "Avoid drought stress", "Field sanitation">>]
    [] d = FalseSmut /\ s = "Mild" ->
       [symptoms   |-> <<"Few green smut balls", "Limited panicle infection", "Normal grain formation", "No yield impact">>,
        treatment  |-> <<"Field monitoring", "Avoid excess nitrogen", "Improve aeration", "No immediate chemical spray">>,
        prevention |-> <<"Disease-free seeds", "Balanced fertilization", "Proper drainage", "Timely sowing">>]
    [] d = FalseSmut /\ s = "Moderate" ->
       [symptoms   |-> <<"Yellow smut balls", "Multiple panicles affected", "Partial grain replacement", "Yield reduction">>,
        treatment  |-> <<"Spray Propiconazole", "Remove infected panicles", "Reduce nitrogen", "Improve spacing">>,
        prevention |-> <<"Crop rotation", "Resistant varieties", "Field sanitation", "Timely planting">>]
    [] d = FalseSmut /\ s = "Severe" ->
       [symptoms   |-> <<"Black smut balls", "Most panicles infected", "Grain completely replaced", "Severe yield loss">>,
        treatment  |-> <<"Immediate fungicide spray", "Destroy infected crop", "Multiple spray cycles", "Expert consultation">>,
        prevention |-> <<"Resistant hybrids", "Strict nitrogen control", "Deep ploughing", "Avoid infected fields">>]
    [] d = LeafSmut /\ s = "Mild" ->
       [symptoms   |-> <<"Small black streaks", "Limited spread", "Leaves mostly green", "Normal growth">>,
        treatment  |-> <<"Monitor disease", "Remove affected leaves", "Light fungicide spray", "Improve airflow">>,
        prevention |-> <<"Disease-free seeds", "Balanced nutrition", "Proper irrigation", "Field inspection">>]
    [] d = LeafSmut /\ s = "Moderate" ->
       [symptoms   |-> <<"Increased black streaks", "Partial leaf drying", "Reduced photosynthesis", "Yield reduction">>,
        treatment  |-> <<"Apply fungicide", "Remove infected plants", "Improve drainage", "Reduce humidity">>,
        prevention |-> <<"Seed treatment", "Crop rotation", "Soil health management", "Regular monitoring">>]
    [] d = LeafSmut /\ s = "Severe" ->
       [symptoms   |-> <<"Heavy black streaks", "Complete leaf drying", "Stunted growth", "Severe yield loss">>,
        treatment  |-> <<"Immediate fungicide spray", "Remove infected crop", "Field sanitation", "Expert advice">>,
        prevention |-> <<"Resistant varieties", "Strict crop rotation", "Avoid infected fields", "Residue management">>]
    [] d = StemRot /\ s = "Mild" ->
       [symptoms   |-> <<"Minor stem discoloration", "Small lesions at base", "Plants upright", "No lodging">>,
        treatment  |-> <<"Improve drainage", "Avoid waterlogging", "Monitor plants", "Preventive fungicide">>,
        prevention |-> <<"Balanced fertilization", "Proper irrigation", "Crop rotation", "Field leveling">>]
    [] d = StemRot /\ s = "Moderate" ->
       [symptoms   |-> <<"Stem base rotting", "Lower leaf yellowing", "Partial lodging", "Reduced tillering">>,
        treatment  |-> <<"Apply fungicide", "Improve aeration", "Remove infected plants", "Drain excess water">>,
        prevention |-> <<"Resistant varieties", "Organic matter control", "Soil health improvement", "Water management">>]
    [] d = StemRot /\ s = "Severe" ->
       [symptoms   |-> <<"Complete stem collapse", "Severe lodging", "Root decay", "Major yield loss">>,
        treatment  |-> <<"Immediate fungicide", "Remove crop", "Field drying", "Expert consultation">>,
        prevention |-> <<"Avoid continuous rice", "Crop residue removal", "Deep ploughing", "Strict water control">>]
    [] d = Tungro /\ s = "Mild" ->
       [symptoms   |-> <<"Light yellowing", "Slight stunting", "Few plants affected", "No yield loss">>,
        treatment  |-> <<"Monitor vectors", "Remove infected plants", "Light insecticide spray", "Improve nutrition">>,
        prevention |-> <<"Resistant varieties", "Weed control", "Timely planting", "Vector monitoring">>]
    [] d = Tungro /\ s = "Moderate" ->
       [symptoms   |-> <<"Yellow-orange leaves", "Reduced tillering", "Moderate stunting", "Field spread">>,
        treatment  |-> <<"Apply systemic insecticide", "Remove infected clumps", "Control vectors", "Correct nutrients">>,
        prevention |-> <<"Synchronised planting", "Seedling protection", "Vector control", "Field sanitation">>]
    [] d = Tungro /\ s = "Severe" ->
       [symptoms   |-> <<"Severe yellowing", "Extreme stunting", "Almost no grain", "Crop failure risk">>,
        treatment  |-> <<"Immediate vector control", "Destroy infected crop", "Field quarantine", "Expert guidance">>,
        prevention |-> <<"Strict vector management", "Resistant cultivars", "Crop rotation", "Avoid infected nurseries">>]

HasDisease(d) == \E i \in 1..Len(DiseaseKeys) : DiseaseKeys[i] = d
HasSeverity(d, s) ==
  HasDisease(d) /\ \E i \in 1..Len(SeverityKeys(d)) : SeverityKeys(d)[i] = s

(***************************************************************************)
(* Paths.  A file name is a sequence of string pieces (so that             *)
(* f"result_{filename}" is a concatenation) and a path is a sequence of    *)
(* names.  A name of <<"..">> is the parent directory.                     *)
(***************************************************************************)
BASE_DIR   == << <<"backend">> >>
UPLOAD_DIR == BASE_DIR \o << <<"uploads">> >>
RESULT_DIR == UPLOAD_DIR \o << <<"results">> >>

DotDot == <<"..">>

\* the path the operating system resolves: ".." steps to the parent
RECURSIVE Resolve(_, _)
Resolve(done, rest) ==
  IF rest = <<>> THEN done
  ELSE IF Head(rest) = DotDot
       THEN Resolve(IF done = <<>> THEN <<>> ELSE SubSeq(done, 1, Len(done) - 1), Tail(rest))
       ELSE Resolve(Append(done, Head(rest)), Tail(rest))

Normalize(path) == Resolve(<<>>, path)

\* os.path.basename
Basename(path) == IF path = <<>> THEN <<>> ELSE path[Len(path)]

\* f"/uploads/{filename}" and f"/uploads/results/{result_filename}": the
\* leading "/" is the empty first name
UploadsUrl(filename) == << <<>>, <<"uploads">>, filename >>
ResultsUrl(filename) == << <<>>, <<"uploads">>, <<"results">>, filename >>

(***************************************************************************)
(* utils/predict.py: the detector's output and predict_disease.            *)
(* A detection result is [none, boxes]: "none" says results.boxes is None, *)
(* boxes is the sequence of [cls, conf], conf in units of 0.00001.         *)
(* Confidence percentages are integers in units of 0.01 percent.           *)
(***************************************************************************)
names ==
  << <<"B","r","o","w","n"," ","s","p","o","t">>,
     <<"f","a","l","s","e","_","s","m","u","t">>,
     <<"h","e","a","l","t","h","y">>,
     <<" ","r","i","c","e"," ","b","l","a","s","t"," ">> >>

HealthyConfidence == 9900

\* len(results.boxes), with the "boxes is None" case of the guard
NoBoxes(results) == results.none \/ Len(results.boxes) = 0

\* a slip: the first box is taken as the best one
ArgMax_first(boxes) == 1

\* results.boxes.conf.argmax(): the first index of a maximal confidence
ArgMax(boxes) ==
  CHOOSE i \in 1..Len(boxes) :
    /\ \A j \in 1..Len(boxes) : boxes[j].conf <= boxes[i].conf
    /\ \A j \in 1..(i - 1) : boxes[j].conf < boxes[i].conf

\* round(float(conf) * 100, 2): conf in units of 0.00001 gives hundredths of
\* a percent, an exact half going to the even neighbour
RoundConfidence(conf) ==
  LET q == conf \div 10
      r == conf % 10
  IN  IF r > 5 \/ (r = 5 /\ q % 2 = 1) THEN q + 1 ELSE q

\* a slip: the bound of "Severe" is exclusive
SeverityOf_exclusive(box_count) ==
  IF box_count > 7 THEN "Severe"
  ELSE IF box_count >= 3 THEN "Moderate"
  ELSE "Mild"

\* the box-count thresholds
SeverityOf(box_count) ==
  IF box_count >= 7 THEN "Severe"
  ELSE IF box_count >= 3 THEN "Moderate"
  ELSE "Mild"

DefaultInfo ==
  [symptoms   |-> <<"Information not available">>,
   treatment  |-> <<"Consult agriculture expert">>,
   prevention |-> <<"General crop care recommended">>]

\* DISEASE_INFO.get(disease, {}).get(severity, {...})
InfoFor(disease, severity) ==
  IF HasSeverity(disease, severity) THEN DISEASE_INFO(disease, severity) ELSE DefaultInfo

ResultFilename(filename) == <<"result_">> \o filename

\* a slip: a leaf without boxes is reported with the lowest disease severity
HealthyResponse_mild(filename) ==
  [disease        |-> Healthy,
   confidence     |-> HealthyConfidence,
   severity       |-> "Mild",
   lesion_count   |-> 0,
   description    |-> [template |-> "Healthy rice leaf detected.",
                       disease |-> <<>>, severity |-> ""],
   symptoms       |-> <<>>,
   treatment      |-> <<>>,
   prevention     |-> DISEASE_INFO(Healthy, "None").prevention,
   original_image |-> UploadsUrl(filename),
   result_image   |-> UploadsUrl(filename)]

\* the response of the "no detection" branch
HealthyResponse(filename) ==
  [disease        |-> Healthy,
   confidence     |-> HealthyConfidence,
   severity       |-> "None",
   lesion_count   |-> 0,
   description    |-> [template |-> "Healthy rice leaf detected.",
                       disease |-> <<>>, severity |-> ""],
   symptoms       |-> <<>>,
   treatment      |-> <<>>,
   prevention     |-> DISEASE_INFO(Healthy, "None").prevention,
   original_image |-> UploadsUrl(filename),
   result_image   |-> UploadsUrl(filename)]

\* the response when at least one box was detected
DiseaseResponse(filename, results) ==
  LET box_count  == Len(results.boxes)
      best_idx   == ArgMax(results.boxes)
      cls_id     == results.boxes[best_idx].cls
      confidence == results.boxes[best_idx].conf
      disease    == Title(Strip(names[cls_id + 1]))
      severity   == SeverityOf(box_count)
      info       == InfoFor(disease, severity)
  IN  [disease        |-> disease,
       confidence     |-> RoundConfidence(confidence),
       severity       |-> severity,
       lesion_count   |-> box_count,
       description    |-> [template |-> "{disease} detected with {severity} severity.",
                           disease |-> disease, severity |-> severity],
       symptoms       |-> info.symptoms,
       treatment      |-> info.treatment,
       prevention     |-> info.prevention,
       original_image |-> UploadsUrl(filename),
       result_image   |-> ResultsUrl(ResultFilename(filename))]

NoResult == [none |-> TRUE]

\* a slip: the test "model is None" is missing, every call builds a YOLO
get_model_reloading(m, load_ok) ==
  IF load_ok THEN [raised |-> FALSE, model |-> m + 1]
  ELSE [raised |-> TRUE, model |-> m]

\* get_model(): the global is assigned only when it is None and
\* YOLO(MODEL_PATH) returns; load_ok says whether it does.  Gives whether it
\* raised and the global afterwards.
get_model(m, load_ok) ==
  IF m # 0 THEN [raised |-> FALSE, model |-> m]
  ELSE IF load_ok THEN [raised |-> FALSE, model |-> m + 1]
  ELSE [raised |-> TRUE, model |-> m]

\* predict_disease(image_path) when the detector would return results, the
\* global model is m and the disk holds fs.  load_ok: YOLO(MODEL_PATH)
\* succeeds; infer_ok: the inference call succeeds; write_ok: cv2.imwrite
\* stores the annotated image (it reports a failure by its return value,
\* which the code ignores).  Gives what was raised or returned and the model
\* and disk afterwards.
predict_disease(image_path, results, m, fs, load_ok, infer_ok, write_ok) ==
  LET filename == Basename(image_path)
      got      == get_model(m, load_ok)
  IN  IF got.raised
      THEN [raised |-> TRUE, result |-> NoResult, model |-> got.model, files |-> fs]
      ELSE IF ~infer_ok \/ Normalize(image_path) \notin fs
      THEN [raised |-> TRUE, result |-> NoResult, model |-> got.model, files |-> fs]
      ELSE IF NoBoxes(results)
      THEN [raised |-> FALSE, result |-> HealthyResponse(filename),
            model |-> got.model, files |-> fs]
      ELSE [raised |-> FALSE, result |-> DiseaseResponse(filename, results),
            model |-> got.model,
            files |-> IF write_ok
                      THEN fs \cup {RESULT_DIR \o <<ResultFilename(filename)>>}
                      ELSE fs]

(***************************************************************************)
(* app.py: the detection store and the endpoints on it.                    *)
(*                                                                         *)
(* A Detection row is [id, disease, confidence, severity, image_path,      *)
(* result_path, created_at].  "last" is the request served last:           *)
(* [op, args, status, body, invoked, db], body the JSON answer, invoked    *)
(* whether predict_disease was called and db what the database did with    *)
(* the request's transaction ("none" when it had none).                    *)
(***************************************************************************)
max_size == 5 * 1024 * 1024

\* a slip: a text type among the allowed types
allowed_types_with_text == {"image/jpeg", "image/png", "image/webp", "text/plain"}

allowed_types == {"image/jpeg", "image/png", "image/webp"}

Max(S) == CHOOSE x \in S : \A y \in S : y <= x

Ids(rows) == {r.id : r \in rows}

\* the key SQLite gives to a new row of an INTEGER PRIMARY KEY table: one
\* more than the largest key in the table
NextId(rows) == IF rows = {} THEN 1 ELSE Max(Ids(rows)) + 1

ErrorBody(msg) == [error |-> msg]
DetailBody(msg) == [detail |-> msg]
MessageBody(msg) == [message |-> msg]

\* os.path.join(UPLOAD_DIR, file.filename), the client's name being a
\* relative path
UploadPath(filename) ==
  IF filename # <<>> /\ Head(filename) = <<>> THEN Tail(filename)
  ELSE UPLOAD_DIR \o filename

\* a slip: the annotated image is stored as the original one
DetectionRow_result_as_image(id, result, now) ==
  [id          |-> id,
   disease     |-> result.disease,
   confidence  |-> result.confidence,
   severity    |-> result.severity,
   image_path  |-> result.result_image,
   result_path |-> result.result_image,
   created_at  |-> now]

\* Detection(disease=result["disease"], ...) as stored by commit
DetectionRow(id, result, now) ==
  [id          |-> id,
   disease     |-> result.disease,
   confidence  |-> result.confidence,
   severity    |-> result.severity,
   image_path  |-> result.original_image,
   result_path |-> result.result_image,
   created_at  |-> now]

\* result["detection_id"] = detection.id
WithDetectionId(result, id) ==
  [disease        |-> result.disease,
   confidence     |-> result.confidence,
   severity       |-> result.severity,
   lesion_count   |-> result.lesion_count,
   description    |-> result.description,
   symptoms       |-> result.symptoms,
   treatment      |-> result.treatment,
   prevention     |-> result.prevention,
   original_image |-> result.original_image,
   result_image   |-> result.result_image,
   detection_id   |-> id]

\* what a request left behind: its answer, whether predict_disease was
\* called, how its database transaction went, whether it printed a warning,
\* whether every session it opened was closed when it ended
Served(op, args, status, body, invoked, db) ==
  [op |-> op, args |-> args, status |-> status, body |-> body, invoked |-> invoked,
   db |-> db, warned |-> FALSE, closed |-> TRUE]

\* a handler that raised between SessionLocal() and db.close(), with no
\* finally clause around them
Unclosed(served) == [served EXCEPT !.closed = FALSE]

\* a slip: the row of an image uploaded again takes the place of the old one
InsertRow_replacing_same_image(rows, row) ==
  {r \in rows : r.image_path # row.image_path} \cup {row}

\* the store after db.add(detection); db.commit()
InsertRow(rows, row) == rows \cup {row}

\* a slip: a failed commit is answered with an error payload
SaveDetection_error_on_failure(args, result, db, now) ==
  LET id == NextId(detections)
  IN  /\ clock' = now
      /\ IF db = "commit_fails"
         THEN /\ detections' = detections
              /\ last' = Served("detect", args, 200, ErrorBody("Database error"), TRUE, db)
         ELSE /\ detections' = detections \cup {DetectionRow(id, result, now)}
              /\ last' = Served("detect", args, 200,
                                IF db = "ok" THEN WithDetectionId(result, id) ELSE result,
                                TRUE, db)

\* the tail of detect_disease: the result is stored and returned.
\* db = "ok": commit and refresh succeed; "commit_fails": add or commit
\* raises and the transaction is rolled back; "refresh_fails": the row is
\* committed and refresh raises.
SaveDetection(args, result, db, now) ==
  LET id == NextId(detections)
  IN  /\ clock' = now
      /\ IF db = "commit_fails"
         THEN /\ detections' = detections
              /\ last' = Served("detect", args, 200, result, TRUE, db)
         ELSE /\ detections' = InsertRow(detections, DetectionRow(id, result, now))
              /\ last' = Served("detect", args, 200,
                                IF db = "ok" THEN WithDetectionId(result, id) ELSE result,
                                TRUE, db)

\* what the clients send and what the detector sees on the uploads
ContentTypes == {"image/jpeg", "image/gif", "text/plain"}
Sizes == {max_size, max_size + 1}
UploadNames == << <<"a.jpg">>, <<"b.png">>, <<"c.webp">>, <<"d.jpg">> >>
Filenames == {<<UploadNames[i]>> : i \in 1..MaxNames}
RiceBlastBox == [cls |-> 3, conf |-> 92000]
Detected ==
  {[none |-> FALSE, boxes |-> <<>>]}
  \cup {[none |-> FALSE, boxes |-> [i \in 1..n |-> RiceBlastBox]] : n \in {3}}

\* a variant that passes the exception text on to the client
PredictionFailed_detail == ErrorBody("Prediction failed: inference error")

\* the payload of the except branch around predict_disease
PredictionFailed == ErrorBody("Prediction failed")

\* POST /detect of a file whose name is one of filenames
DetectFrom(filenames) ==
  \E content_type \in ContentTypes, size \in Sizes :
    LET rejected == [content_type |-> content_type, size |-> size, filename |-> <<>>]
    IN
    IF content_type \notin allowed_types
    THEN /\ last' = Served("detect", rejected, 200,
                           ErrorBody("Only JPEG, PNG, and WebP images are allowed"),
                           FALSE, "none")
         /\ UNCHANGED <<detections, feedback, files, model, clock, pd, chat, forum, pages>>
    ELSE IF size > max_size
    THEN /\ last' = Served("detect", rejected, 200,
                           ErrorBody("File size exceeds 5MB limit"), FALSE, "none")
         /\ UNCHANGED <<detections, feedback, files, model, clock, pd, chat, forum, pages>>
    ELSE
      \E filename \in filenames, save \in {"ok", "open_fails", "copy_fails"} :
        LET args      == [content_type |-> content_type, size |-> size,
                          filename |-> filename]
            file_path == UploadPath(filename)
            saved     == IF save = "open_fails" THEN files
                         ELSE files \cup {Normalize(file_path)}
        IN
        IF save # "ok"
        THEN /\ files' = saved
             /\ last' = Served("detect", args, 200, ErrorBody("Failed to save file"),
                               FALSE, "none")
             /\ UNCHANGED <<detections, feedback, model, clock, pd, chat, forum, pages>>
        ELSE
          \E results \in Detected,
             load_ok \in (IF model # 0 THEN {TRUE} ELSE BOOLEAN),
             infer_ok \in BOOLEAN :
            \E write_ok \in (IF infer_ok /\ ~NoBoxes(results) THEN BOOLEAN ELSE {TRUE}) :
              LET out == predict_disease(file_path, results, model, saved,
                                         load_ok, infer_ok, write_ok)
              IN  /\ model' = out.model
                  /\ files' = out.files
                  /\ UNCHANGED <<feedback, pd, chat, forum, pages>>
                  /\ IF out.raised
                     THEN /\ last' = Served("detect", args, 200,
                                            PredictionFailed, TRUE, "none")
                          /\ UNCHANGED <<detections, clock>>
                     ELSE \E db \in {"ok", "commit_fails", "refresh_fails"},
                             now \in {clock, clock + 1} :
                            /\ now <= MaxClock
                            /\ (db # "commit_fails" => NextId(detections) <= MaxId)
                            /\ SaveDetection(args, out.result, db, now)

\* POST /detect
Detect == DetectFrom(Filenames)

\* datetime.isoformat()
Isoformat(t) == [iso |-> t]

\* one entry of GET /history
HistoryEntry(d) ==
  [id             |-> d.id,
   disease        |-> d.disease,
   confidence     |-> d.confidence,
   severity       |-> d.severity,
   original_image |-> d.image_path,
   result_image   |-> d.result_path,
   timestamp      |-> Isoformat(d.created_at)]

\* a slip: ORDER BY created_at without DESC
NewestFirst_ascending(rows) ==
  {q \in [1..Cardinality(rows) -> rows] :
     /\ \A i, j \in 1..Cardinality(rows) : i < j => q[i] # q[j]
     /\ \A i, j \in 1..Cardinality(rows) : i < j => q[i].created_at <= q[j].created_at}

\* the orders of the rows that ORDER BY created_at DESC allows
NewestFirst(rows) ==
  {q \in [1..Cardinality(rows) -> rows] :
     /\ \A i, j \in 1..Cardinality(rows) : i < j => q[i] # q[j]
     /\ \A i, j \in 1..Cardinality(rows) : i < j => q[i].created_at >= q[j].created_at}

\* the lists get_history may return on a store holding rows
get_history(rows) ==
  {[i \in 1..Len(q) |-> HistoryEntry(q[i])] : q \in NewestFirst(rows)}

\* GET /history
GetHistory ==
  /\ \E history \in get_history(detections) :
       last' = Served("history", [none |-> TRUE], 200, [history |-> history], FALSE, "ok")
  /\ UNCHANGED <<detections, feedback, files, model, clock, pd, chat, forum, pages>>

\* image_path.lstrip('/') joined to BASE_DIR
RECURSIVE LStrip(_)
LStrip(url) == IF url # <<>> /\ Head(url) = <<>> THEN LStrip(Tail(url)) ELSE url
DiskPath(url) == Normalize(BASE_DIR \o LStrip(url))

\* the disk after the file removal of delete_detection.  rm = "ok": every
\* os.remove succeeds; "first_fails": the first os.remove raises;
\* "second_fails": the second one does.
RemoveImages(fs, detection, rm) ==
  LET image  == DiskPath(detection.image_path)
      result == DiskPath(detection.result_path)
      fs1    == IF image \in fs /\ rm # "first_fails" THEN fs \ {image} ELSE fs
  IN  IF image \in fs /\ rm = "first_fails" THEN fs
      ELSE IF result \in fs1 /\ rm # "second_fails" THEN fs1 \ {result}
      ELSE fs1

\* whether an os.remove of delete_detection raises: it is called only for a
\* file that exists, the second one only when the first did not raise
RemovalRaises(fs, detection, rm) ==
  LET image  == DiskPath(detection.image_path)
      result == DiskPath(detection.result_path)
  IN  \/ rm = "first_fails" /\ image \in fs
      \/ rm = "second_fails" /\ result \in fs \ {image}

\* a slip: the exception of os.remove reaches the outer handler
Deleted_propagating(args, db, raised) ==
  IF raised
  THEN [Served("delete", args, 500, DetailBody("Error deleting detection"), FALSE, db)
          EXCEPT !.warned = TRUE]
  ELSE Served("delete", args, 200, MessageBody("Detection deleted successfully"),
              FALSE, db)

\* the answer of delete_detection once the row is deleted; a failed file
\* removal only prints a warning
Deleted(args, db, raised) ==
  [Served("delete", args, 200, MessageBody("Detection deleted successfully"), FALSE, db)
     EXCEPT !.warned = raised]

\* a slip: every row of the same image goes with the row deleted
DeleteRow_same_image(rows, detection) ==
  {r \in rows : r.image_path # detection.image_path}

\* the store after db.delete(detection); db.commit()
DeleteRow(rows, detection) == rows \ {detection}

\* a slip: the filter on the id is missing, any row is found
FindDetection_unfiltered(rows, detection_id) == rows

\* db.query(Detection).filter(Detection.id == detection_id).first(): the rows
\* it may give, none when the set is empty
FindDetection(rows, detection_id) == {r \in rows : r.id = detection_id}

\* str(detection_id), the value a String column holds
Str(n) == [str |-> n]

\* a variant: the reviews of a detection are deleted with it
FeedbackAfterDelete_cascade(rows, detection) ==
  SelectSeq(rows, LAMBDA f : f.detection_id # Str(detection.id))

\* the feedback table after a detection is deleted: Feedback.detection_id is
\* a plain String column, no foreign key and no relationship reach it
FeedbackAfterDelete(rows, detection) == rows

\* DELETE /delete/{detection_id}
DeleteDetection ==
  \E detection_id \in 1..(MaxId + 1) :
    LET args  == [detection_id |-> detection_id]
        found == FindDetection(detections, detection_id)
    IN
    IF found = {}
    THEN /\ last' = Served("delete", args, 404, DetailBody("Detection not found"),
                           FALSE, "ok")
         /\ UNCHANGED <<detections, feedback, files, model, clock, pd, chat, forum, pages>>
    ELSE
      \E detection \in found, db \in {"ok", "commit_fails"} :
        IF db = "commit_fails"
        THEN /\ last' = Served("delete", args, 500,
                               DetailBody("Error deleting detection"), FALSE, db)
             /\ UNCHANGED <<detections, feedback, files, model, clock, pd, chat, forum, pages>>
        ELSE
          \E rm \in {"ok", "first_fails", "second_fails"} :
            /\ detections' = DeleteRow(detections, detection)
            /\ feedback' = FeedbackAfterDelete(feedback, detection)
            /\ files' = RemoveImages(files, detection, rm)
            /\ last' = Deleted(args, db, RemovalRaises(files, detection, rm))
            /\ UNCHANGED <<model, clock, pd, chat, forum, pages>>

\* the answer to a request whose handler raised an exception that nothing
\* caught
InternalServerError == [text |-> "Internal Server Error"]

\* the row Feedback(detection_id=..., rating=..., comments=...) once stored
FeedbackRow(id, data, now) ==
  [id |-> id, detection_id |-> Str(data.detection_id), rating |-> data.rating,
   comments |-> data.comments, created_at |-> now]

\* the table after db.add(feedback); db.commit()
AddFeedback(rows, row) == Append(rows, row)

\* POST /feedback with the keys detection_id and rating, comments optional.
\* A body without "rating" raises KeyError after the session is opened; a
\* refused commit raises as well; neither closes the session.
SubmitFeedback ==
  \E detection_id \in 1..MaxId, rating \in {5}, complete \in BOOLEAN,
     db \in {"ok", "commit_fails"} :
    LET args == [detection_id |-> detection_id, complete |-> complete]
        data == [detection_id |-> detection_id, rating |-> rating, comments |-> ""]
    IN
    IF ~complete \/ db = "commit_fails"
    THEN /\ last' = Unclosed(Served("feedback", args, 500, InternalServerError, FALSE,
                                    IF complete THEN db ELSE "left_open"))
         /\ UNCHANGED <<detections, feedback, files, model, clock, pd, chat, forum, pages>>
    ELSE /\ Len(feedback) < MaxFeedback
         /\ feedback' = AddFeedback(feedback, FeedbackRow(Len(feedback) + 1, data, clock))
         /\ last' = Served("feedback", args, 200, MessageBody("Feedback submitted"),
                           FALSE, db)
         /\ UNCHANGED <<detections, files, model, clock, pd, chat, forum, pages>>

Init ==
  /\ detections = {}
  /\ feedback = <<>>
  /\ forum = <<>>
  /\ localStorage = Idle
  /\ uploadPage = Idle
  /\ resultPage = Idle
  /\ historyPage = Idle
  /\ registerPage = Idle
  /\ files = {}
  /\ model = 0
  /\ clock = 0
  /\ last = Served("none", [none |-> TRUE], 0, [none |-> TRUE], FALSE, "none")
  /\ pd = Idle
  /\ chat = Idle

Next ==
  \/ Detect
  \/ GetHistory
  \/ DeleteDetection
  \/ SubmitFeedback

Spec == Init /\ [][Next]_vars

\* C4: DELETE /delete/{id} with an id that is not in the store answers 404
\* and leaves the detection store, the feedback table and the image files
\* as they were.
C4_DeleteUnknownId ==
  [][(last'.op = "delete" /\ last'.args.detection_id \notin Ids(detections)) =>
       /\ last'.status = 404
       /\ detections' = detections
       /\ feedback' = feedback
       /\ files' = files]_vars

\* an unknown id refused on a store that holds a row, a feedback and files
C4_Witness ==
  /\ last.op = "delete"
  /\ last.status = 404
  /\ detections # {}
  /\ feedback # <<>>
  /\ files # {}

HistoryIds(history) == {history[i].id : i \in 1..Len(history)}
HistoryEntries(history) == {history[i] : i \in 1..Len(history)}

\* C5: DELETE /delete/{id} with an id in the store removes exactly that row:
\* GET /history then has one entry fewer, the id is absent and every other
\* entry is as before.  (When the database refuses the commit the call
\* answers 500 and the store is as before.)
C5_DeleteRemovesOneRow ==
  [][(last'.op = "delete" /\ last'.args.detection_id \in Ids(detections)) =>
       \/ /\ last'.status = 500
          /\ last'.db = "commit_fails"
          /\ detections' = detections
       \/ /\ last'.status = 200
          /\ \A before \in get_history(detections), after \in get_history(detections') :
               /\ Len(after) = Len(before) - 1
               /\ last'.args.detection_id \notin HistoryIds(after)
               /\ \A e \in HistoryEntries(before) :
                    e.id # last'.args.detection_id => e \in HistoryEntries(after)]_vars

\* a row deleted while another row stays
C5_Witness ==
  /\ last.op = "delete"
  /\ last.status = 200
  /\ detections # {}
  /\ last.args.detection_id \notin Ids(detections)

\* C8: POST /detect with a non-image content type or with more than
\* 5*1024*1024 bytes answers an {error} payload, writes no file, does not
\* invoke the model and inserts no row.
C8_RejectedUpload ==
  [][(/\ last'.op = "detect"
      /\ \/ last'.args.content_type = "text/plain"
         \/ last'.args.size > 5242880) =>
       /\ last'.status = 200
       /\ DOMAIN last'.body = {"error"}
       /\ files' = files
       /\ ~last'.invoked
       /\ model' = model
       /\ detections' = detections]_vars

\* an image of 5 MB + 1 byte refused
C8_Witness ==
  /\ last.op = "detect"
  /\ last.args.content_type = "image/jpeg"
  /\ last.args.size = 5242881
  /\ "error" \in DOMAIN last.body

\* C9: when POST /detect succeeds (upload accepted, inference and database
\* insert succeed) the store holds exactly one more row, the row's disease,
\* confidence, severity and image paths are those of the returned result
\* and the returned detection_id is the row's id.
C9_DetectStoresResult ==
  [][(last'.op = "detect" /\ last'.db = "ok") =>
       /\ Cardinality(detections') = Cardinality(detections) + 1
       /\ detections \subseteq detections'
       /\ "detection_id" \in DOMAIN last'.body
       /\ \A row \in detections' \ detections :
            /\ row.id = last'.body.detection_id
            /\ row.disease = last'.body.disease
            /\ row.confidence = last'.body.confidence
            /\ row.severity = last'.body.severity
            /\ row.image_path = last'.body.original_image
            /\ row.result_path = last'.body.result_image]_vars

\* a diseased leaf stored as the second row
C9_Witness ==
  /\ last.op = "detect"
  /\ last.db = "ok"
  /\ Cardinality(detections) = 2
  /\ last.body.disease = RiceBlast
  /\ last.body.original_image # last.body.result_image
  /\ \E row \in detections : row.id = last.body.detection_id /\ row.disease = RiceBlast

ResultKeys ==
  {"disease", "confidence", "severity", "lesion_count", "description", "symptoms",
   "treatment", "prevention", "original_image", "result_image"}

\* C10: when inference succeeds and the database insert fails, the caller
\* still gets the complete inference result, not an error payload, and the
\* store is as before.
C10_InsertFailureReturnsResult ==
  [][(last'.op = "detect" /\ last'.db = "commit_fails") =>
       /\ last'.status = 200
       /\ DOMAIN last'.body = ResultKeys
       /\ last'.invoked
       /\ detections' = detections]_vars

\* a failed insert on a store that holds a row
C10_Witness ==
  /\ last.op = "detect"
  /\ last.db = "commit_fails"
  /\ detections # {}
  /\ last.body.disease = RiceBlast

\* C11: when predict_disease raises inside POST /detect (the wrapper was
\* called and the handler never reached the database), the response is the
\* payload {error: "Prediction failed"} with status 200 and the store holds
\* the same rows as before.
C11_PredictionFailureCaught ==
  [][(last'.op = "detect" /\ last'.invoked /\ last'.db = "none") =>
       /\ last'.status = 200
       /\ last'.body = [error |-> "Prediction failed"]
       /\ detections' = detections]_vars

\* inference failed on a loaded model while the store holds a row
C11_Witness ==
  /\ last.op = "detect"
  /\ last.invoked
  /\ last.db = "none"
  /\ "error" \in DOMAIN last.body
  /\ model # 0
  /\ detections # {}

\* C20: the detector is not built before the first call of predict_disease,
\* it is built by a POST /detect that reaches predict_disease, and once built
\* the same instance serves every later request: no second one is built.
C20_ModelLoadedOnce ==
  /\ model = 0
  /\ [][/\ model # 0 => model' = model
        /\ model' # model => last'.op = "detect" /\ last'.invoked /\ model' = 1]_vars

\* two detections stored by two calls of predict_disease, still the first
\* instance
C20_Witness ==
  /\ model = 1
  /\ Cardinality(detections) = 2
  /\ last.op = "detect"
  /\ last.invoked

\* C22: the response of POST /detect holds a detection_id exactly when the
\* call committed a row to the store, and then it is the id of that row.
C22_IdIffRowCommitted ==
  [][last'.op = "detect" =>
       /\ "detection_id" \in DOMAIN last'.body <=> detections' # detections
       /\ "detection_id" \in DOMAIN last'.body =>
            detections' \ detections = {r \in detections' : r.id = last'.body.detection_id}]_vars

\* C23: the original image of every row in the store is on disk in the
\* uploads directory.
C23_StoredRowsHaveImage ==
  \A row \in detections :
    /\ DiskPath(row.image_path) \in files
    /\ Len(DiskPath(row.image_path)) > Len(UPLOAD_DIR)
    /\ SubSeq(DiskPath(row.image_path), 1, Len(UPLOAD_DIR)) = UPLOAD_DIR

\* C12: the list GET /history returns holds exactly the rows of the store,
\* one entry per row in the wire format, and no entry comes after one with an
\* earlier creation time.
C12_HistoryNewestFirst ==
  last.op = "history" =>
    LET history == last.body.history
    IN  /\ Len(history) = Cardinality(detections)
        /\ {history[i] : i \in 1..Len(history)} = {HistoryEntry(d) : d \in detections}
        /\ \A i, j \in 1..Len(history) :
             i < j => history[i].timestamp.iso >= history[j].timestamp.iso

\* two rows created at different times, the later one listed first
C12_Witness ==
  /\ last.op = "history"
  /\ Len(last.body.history) = 2
  /\ last.body.history[1].timestamp.iso > last.body.history[2].timestamp.iso
  /\ last.body.history[1].id > last.body.history[2].id

\* C13: when DELETE /delete/{id} finds the row and an os.remove of one of
\* its image files raises, the call still answers 200 with the success
\* message, the row is gone from the store and the file is still on disk.
C13_RemovalFailureNotPropagated ==
  [][(last'.op = "delete" /\ last'.warned) =>
       /\ last'.status = 200
       /\ last'.body = [message |-> "Detection deleted successfully"]
       /\ \E row \in detections :
            /\ row.id = last'.args.detection_id
            /\ detections' = detections \ {row}
            /\ \/ DiskPath(row.image_path) \in files \cap files'
               \/ DiskPath(row.result_path) \in files \cap files']_vars

\* the last row deleted while the removal of its annotated image failed: the
\* upload is gone, the annotated image stays behind
C13_Witness ==
  /\ last.op = "delete"
  /\ last.warned
  /\ last.status = 200
  /\ detections = {}
  /\ \E filename \in Filenames :
       /\ UploadPath(filename) \notin files
       /\ RESULT_DIR \o <<ResultFilename(Basename(filename))>> \in files

\* C14: identifiers are monotonic, so a detection stored right after a
\* committed delete receives an identifier greater than the deleted one and
\* greater than every identifier in the store.
C14_DeletedIdNotReused ==
  [][(/\ last.op = "delete" /\ last.status = 200
      /\ last'.op = "detect" /\ last'.db = "ok") =>
       /\ last'.body.detection_id > last.args.detection_id
       /\ \A row \in detections : last'.body.detection_id > row.id]_vars

(***************************************************************************)
(* app.py: the rule-based chatbot.  A response is the text template used   *)
(* and the values filled into it.                                          *)
(***************************************************************************)
intents ==
  << [intent |-> "symptoms", keywords |-> <<
        <<"s","y","m","p","t","o","m">>,
        <<"s","i","g","n">>,
        <<"l","o","o","k"," ","l","i","k","e">>,
        <<"a","p","p","e","a","r">>,
        <<"s","h","o","w">>>>],
     [intent |-> "treatment", keywords |-> <<
        <<"t","r","e","a","t">>,
        <<"c","u","r","e">>,
        <<"m","e","d","i","c","i","n","e">>,
        <<"f","i","x">>,
        <<"h","e","a","l">>>>],
     [intent |-> "prevention", keywords |-> <<
        <<"p","r","e","v","e","n","t">>,
        <<"a","v","o","i","d">>,
        <<"s","t","o","p">>,
        <<"p","r","o","t","e","c","t">>,
        <<"s","a","f","e">>>>],
     [intent |-> "severity", keywords |-> <<
        <<"s","e","v","e","r","i","t","y">>,
        <<"l","e","v","e","l">>,
        <<"b","a","d">>,
        <<"s","e","r","i","o","u","s">>,
        <<"w","o","r","s","e">>>>] >>

Answer(template, disease, severity, items) ==
  [template |-> template, disease |-> disease, severity |-> severity, items |-> items]

SpecifyDisease ==
  Answer("I can help only with rice leaf diseases. Please specify the disease name.",
         <<>>, "", <<>>)
AskIntent ==
  Answer("Please ask about symptoms, treatment, prevention, or severity of the disease.",
         <<>>, "", <<>>)
NotAvailable ==
  Answer("Information is not available. Please consult an agricultural expert.",
         <<>>, "", <<>>)
ForDisease(disease, severity, list) ==
  Answer("For {disease} ({severity} severity): {items}", disease, severity,
         Join(", ", list))

\* the indices of the diseases whose lower-cased name occurs in the message
MentionedDiseases(user_message) ==
  {i \in 1..Len(DiseaseKeys) : Contains(user_message, Lower(DiseaseKeys[i]))}

\* the indices of the intents one of whose keywords occurs in the message
MentionedIntents(user_message) ==
  {i \in 1..Len(intents) :
     \E k \in 1..Len(intents[i].keywords) : Contains(user_message, intents[i].keywords[k])}

\* a slip: the loop goes on after a match, the last match wins
Min_last(S) == CHOOSE x \in S : \A y \in S : y <= x

\* the first match of a loop over a list: the loop breaks on it
Min(S) == CHOOSE x \in S : \A y \in S : x <= y

\* a slip: an empty list is joined like any other
InfoAnswer_empty_joined(detected_disease, detected_intent) ==
  LET keys     == SeverityKeys(detected_disease)
      severity == IF \E i \in 1..Len(keys) : keys[i] = "High" THEN "High" ELSE keys[1]
      info     == DISEASE_INFO(detected_disease, severity)
  IN  IF detected_intent \in DOMAIN info
      THEN ForDisease(detected_disease, severity, info[detected_intent])
      ELSE NotAvailable

\* the answer once disease and intent are known
InfoAnswer(detected_disease, detected_intent) ==
  LET keys     == SeverityKeys(detected_disease)
      severity == IF \E i \in 1..Len(keys) : keys[i] = "High" THEN "High" ELSE keys[1]
      info     == DISEASE_INFO(detected_disease, severity)
  IN  IF detected_intent \in DOMAIN info /\ info[detected_intent] # <<>>
      THEN ForDisease(detected_disease, severity, info[detected_intent])
      ELSE NotAvailable

\* a slip: the intent is looked for before the disease
chatbot_response_intent_first(message) ==
  LET user_message == Strip(Lower(message))
      ds == MentionedDiseases(user_message)
      is == MentionedIntents(user_message)
  IN  IF is = {} THEN AskIntent
      ELSE IF ds = {} THEN SpecifyDisease
      ELSE InfoAnswer(DiseaseKeys[Min(ds)], intents[Min(is)].intent)

\* chatbot_response(data) with data["message"] = message
chatbot_response(message) ==
  LET user_message == Strip(Lower(message))
      ds == MentionedDiseases(user_message)
      is == MentionedIntents(user_message)
  IN  IF ds = {} THEN SpecifyDisease
      ELSE IF is = {} THEN AskIntent
      ELSE InfoAnswer(DiseaseKeys[Min(ds)], intents[Min(is)].intent)

(***************************************************************************)
(* SpecChat: chatbot_response applied to one message, a concatenation of   *)
(* at most MaxFrags fragments.                                             *)
(***************************************************************************)
Fragments ==
  { <<"W","h","a","t"," ","a","r","e"," ","t","h","e"," ","s","y","m","p","t","o","m","s"," ","o","f"," ">>,
    <<"b","r","o","w","n"," ","s","p","o","t">>,
    <<"R","i","c","e"," ","B","l","a","s","t">>,
    <<"B","L","I","G","H","T">>,
    <<"h","e","a","l","t","h","y">>,
    <<"t","u","n","g","r","o">>,
    <<"l","e","a","f">>,
    <<" ","s","m","u","t">>,
    <<"h","o","w"," ","t","o"," ","t","r","e","a","t"," ">>,
    <<" ","p","r","e","v","e","n","t">>,
    <<"s","e","v","e","r","i","t","y">>,
    <<"b","a","d">>,
    <<" ">>,
    <<"r","i","c","e">>,
    <<"t","u","n","g","r","o"," ","o","r"," ","b","l","i","g","h","t"," ">> }

RECURSIVE Messages(_)
Messages(n) ==
  IF n = 0 THEN {<<>>}
  ELSE Messages(n - 1) \cup {m \o f : m \in Messages(n - 1), f \in Fragments}

InitChat ==
  /\ detections = {}
  /\ feedback = <<>>
  /\ forum = <<>>
  /\ localStorage = Idle
  /\ uploadPage = Idle
  /\ resultPage = Idle
  /\ historyPage = Idle
  /\ registerPage = Idle
  /\ files = {}
  /\ model = 0
  /\ clock = 0
  /\ last = Idle
  /\ pd = Idle
  /\ \E m \in Messages(MaxFrags) :
       chat = [pc |-> "call", message |-> m, response |-> SpecifyDisease]

Chatbot ==
  /\ chat.pc = "call"
  /\ chat' = [chat EXCEPT !.pc = "done", !.response = chatbot_response(chat.message)]
  /\ UNCHANGED <<detections, feedback, files, model, clock, last, pd, forum, pages>>

NextChat == Chatbot

SpecChat == InitChat /\ [][NextChat]_vars

\* the message as the chatbot compares it
Compared == Strip(Lower(chat.message))

\* msg contains the name of disease d of the dictionary, a keyword of intent i
NamesDisease(msg, d) == Contains(msg, Lower(DiseaseKeys[d]))
HasKeyword(msg, i) ==
  \E k \in 1..Len(intents[i].keywords) : Contains(msg, intents[i].keywords[k])

NamedDiseases(msg) == {d \in 1..Len(DiseaseKeys) : NamesDisease(msg, d)}
KeywordIntents(msg) == {i \in 1..Len(intents) : HasKeyword(msg, i)}

\* C6: a message that contains no disease name of the dictionary (after
\* lower-casing and trimming) gets the "specify the disease name" answer,
\* whatever intent keywords it contains.
C6_NoDiseaseClarifies ==
  (chat.pc = "done" /\ NamedDiseases(Compared) = {}) =>
    chat.response.template =
      "I can help only with rice leaf diseases. Please specify the disease name."

\* a message with a treatment keyword and no disease name
C6_Witness ==
  /\ chat.pc = "done"
  /\ NamedDiseases(Compared) = {}
  /\ 2 \in KeywordIntents(Compared)
  /\ chat.response = SpecifyDisease

C18_FirstMatchOrder ==
  LET msg == Compared
      ds  == NamedDiseases(msg)
      is  == KeywordIntents(msg)
  IN  (/\ chat.pc = "done" /\ ds # {} /\ is # {}
       /\ (Cardinality(ds) > 1 \/ Cardinality(is) > 1)) =>
        LET d      == CHOOSE x \in ds : \A y \in ds : x <= y
            i      == CHOOSE x \in is : \A y \in is : x <= y
            sev    == SeverityKeys(DiseaseKeys[d])[1]
            info   == DISEASE_INFO(DiseaseKeys[d], sev)
            intent == intents[i].intent
        IN  IF intent \in DOMAIN info /\ info[intent] # <<>>
            THEN chat.response =
                   [template |-> "For {disease} ({severity} severity): {items}",
                    disease  |-> DiseaseKeys[d],
                    severity |-> sev,
                    items    |-> Join(", ", info[intent])]
            ELSE chat.response.template =
                   "Information is not available. Please consult an agricultural expert."

\* " preventhow to treat tungro or blight ": prevention and Tungro come
\* first in the message, treatment and Blight are answered
C18_Witness ==
  /\ chat.pc = "done"
  /\ chat.message = <<" ","p","r","e","v","e","n","t">>
                    \o <<"h","o","w"," ","t","o"," ","t","r","e","a","t"," ">>
                    \o <<"t","u","n","g","r","o"," ","o","r"," ","b","l","i","g","h","t"," ">>
  /\ chat.response.disease = Blight
  /\ chat.response.items[1] = DISEASE_INFO(Blight, "Mild").treatment[1]

(***************************************************************************)
(* SpecPredict: predict_disease applied to one detector output.            *)
(***************************************************************************)
Confs == {15625, 92000, 92346}

BoxKinds == [cls : 0..(Len(names) - 1), conf : Confs]

\* n boxes: box p is a and every other box is b
BoxesOf(n, p, a, b) == [i \in 1..n |-> IF i = p THEN a ELSE b]

DetectorOutputs ==
  {[none |-> TRUE, boxes |-> <<>>], [none |-> FALSE, boxes |-> <<>>]}
  \cup {[none |-> FALSE, boxes |-> BoxesOf(n, p, a, b)] :
          n \in 1..MaxBoxes, p \in 1..MaxBoxes, a \in BoxKinds, b \in BoxKinds}

LeafJpg == <<"leaf.jpg">>

InitPredict ==
  /\ detections = {}
  /\ feedback = <<>>
  /\ forum = <<>>
  /\ localStorage = Idle
  /\ uploadPage = Idle
  /\ resultPage = Idle
  /\ historyPage = Idle
  /\ registerPage = Idle
  /\ files = {UPLOAD_DIR \o <<LeafJpg>>}
  /\ model \in {0, 1}
  /\ clock = 0
  /\ last = Idle
  /\ chat = Idle
  /\ \E r \in DetectorOutputs :
       pd = [pc |-> "call", image_path |-> UPLOAD_DIR \o <<LeafJpg>>,
             results |-> r, raised |-> FALSE, result |-> NoResult]

Predict ==
  /\ pd.pc = "call"
  /\ \E load_ok \in BOOLEAN, infer_ok \in BOOLEAN, write_ok \in BOOLEAN :
       LET out == predict_disease(pd.image_path, pd.results, model, files,
                                  load_ok, infer_ok, write_ok)
       IN  /\ pd' = [pd EXCEPT !.pc = "done", !.raised = out.raised,
                                !.result = out.result]
           /\ model' = out.model
           /\ files' = out.files
  /\ UNCHANGED <<detections, feedback, clock, last, chat, forum, pages>>

NextPredict == Predict

SpecPredict == InitPredict /\ [][NextPredict]_vars

Returned == pd.pc = "done" /\ ~pd.raised

\* C1: on zero boxes (boxes absent or empty) predict_disease returns disease
\* "Healthy", confidence 99.0, severity "None" and empty symptoms and
\* treatment lists.
C1_HealthyOnNoBoxes ==
  (Returned /\ (pd.results.none \/ pd.results.boxes = <<>>)) =>
    /\ pd.result.disease = Healthy
    /\ pd.result.confidence = 9900
    /\ pd.result.severity = "None"
    /\ pd.result.symptoms = <<>>
    /\ pd.result.treatment = <<>>

C1_Witness ==
  /\ Returned
  /\ ~pd.results.none
  /\ pd.results.boxes = <<>>
  /\ pd.result.disease = Healthy
  /\ pd.result.severity = "None"

HasBoxes == ~pd.results.none /\ Len(pd.results.boxes) >= 1

\* C2: with at least one box the severity is decided by the box count n
\* alone: n >= 7 "Severe", 3 <= n < 7 "Moderate", n < 3 "Mild", whatever the
\* confidences and classes of the boxes.
C2_SeverityByBoxCount ==
  (Returned /\ HasBoxes) =>
    LET n == Len(pd.results.boxes)
    IN  /\ n >= 7 => pd.result.severity = "Severe"
        /\ (3 <= n /\ n < 7) => pd.result.severity = "Moderate"
        /\ n < 3 => pd.result.severity = "Mild"

\* exactly seven boxes, all of the lowest confidence, are already "Severe"
C2_Witness ==
  /\ Returned
  /\ HasBoxes
  /\ Len(pd.results.boxes) = 7
  /\ \A i \in 1..7 : pd.results.boxes[i].conf = 15625
  /\ pd.result.severity = "Severe"

\* the label each class of the detector is reported under
ExpectedLabel ==
  << BrownSpot, <<"F","a","l","s","e","_","S","m","u","t">>, Healthy, RiceBlast >>

\* C3: with at least one box the disease is the class of a box of maximal
\* confidence and the confidence is that maximal confidence as a percentage
\* (to two decimals).
C3_BestBoxByConfidence ==
  (Returned /\ HasBoxes) =>
    \E i \in 1..Len(pd.results.boxes) :
      /\ \A j \in 1..Len(pd.results.boxes) :
           pd.results.boxes[j].conf <= pd.results.boxes[i].conf
      /\ pd.result.disease = ExpectedLabel[pd.results.boxes[i].cls + 1]
      /\ 10 * pd.result.confidence - pd.results.boxes[i].conf \in -5..5

\* eight boxes, the best one "rice blast" at 92%, not the first box, the
\* others of another class: Rice Blast, Severe, 92.0
C3_Witness ==
  /\ Returned
  /\ Len(pd.results.boxes) = 8
  /\ pd.results.boxes[1].cls = 0
  /\ pd.results.boxes[1].conf = 15625
  /\ pd.results.boxes[5] = [cls |-> 3, conf |-> 92000]
  /\ pd.result.disease = RiceBlast
  /\ pd.result.severity = "Severe"
  /\ pd.result.confidence = 9200

(***************************************************************************)
(* app.py: every HTTP endpoint.  SpecApi adds the admin overview, the       *)
(* report, the forum, the chatbot and the contact form to the endpoints of  *)
(* Spec.                                                                    *)
(***************************************************************************)
MaxPosts == 1
MaxReports == 1

\* os.getenv("ADMIN_TOKEN"), not empty or the process does not start
admin_token == "s3cret"

\* request.headers.get("X-Admin-Token"): absent, wrong, right
XAdminTokens ==
  {[present |-> FALSE, value |-> ""],
   [present |-> TRUE, value |-> "S3CRET"], [present |-> TRUE, value |-> admin_token]}

\* a slip: any token that is present is accepted
Authorized_any_token(token) == token.present /\ token.value # ""

\* the negation of "not token or token != admin_token"
Authorized(token) ==
  ~(\/ ~token.present \/ token.value = ""
    \/ token.value # admin_token)

\* strftime("%Y-%m-%d %H:%M:%S")
Strftime(t) == [ymdhms |-> t]

\* the feedback of one detection: Feedback.detection_id == str(d.id)
FeedbackOf(d, fb) ==
  LET feedback_list == SelectSeq(fb, LAMBDA f : f.detection_id = Str(d.id))
  IN  [i \in 1..Len(feedback_list) |->
         [rating     |-> feedback_list[i].rating,
          comments   |-> feedback_list[i].comments,
          created_at |-> Strftime(feedback_list[i].created_at)]]

\* one entry of GET /admin/overview
AdminEntry(d, fb) ==
  [id          |-> d.id,
   disease     |-> d.disease,
   confidence  |-> d.confidence,
   severity    |-> d.severity,
   created_at  |-> Strftime(d.created_at),
   image_path  |-> d.image_path,
   result_path |-> d.result_path,
   feedback    |-> FeedbackOf(d, fb)]

\* GET /admin/overview
AdminOverview ==
  /\ \E token \in XAdminTokens :
       IF ~Authorized(token)
       THEN last' = Served("admin", [token |-> token], 401, DetailBody("Unauthorized"),
                           FALSE, "none")
       ELSE \E q \in NewestFirst(detections) :
              last' = Served("admin", [token |-> token], 200,
                             [overview |-> [i \in 1..Len(q) |-> AdminEntry(q[i], feedback)]],
                             FALSE, "ok")
  /\ UNCHANGED <<detections, feedback, files, model, clock, pd, chat, forum, pages>>

\* uuid.uuid4() as text
Uuids == <<"u1", "u2", "u3">>

\* f"report_{uuid.uuid4()}.pdf"
ReportName(uuid) == <<"report_", uuid, ".pdf">>

\* POST /generate_report: generate_pdf reads the keys of the body and then
\* builds the file; a missing key or a failed build raises and leaves no
\* file
GenerateReport ==
  /\ \E i \in 1..MaxReports, complete \in BOOLEAN, build \in {"ok", "fails"} :
       LET file_name == ReportName(Uuids[i])
           file_path == RESULT_DIR \o <<file_name>>
           args      == [complete |-> complete]
       IN  /\ file_path \notin files
           /\ IF ~complete
              THEN /\ last' = Served("report", args, 500, InternalServerError, FALSE, "none")
                   /\ files' = files
              ELSE IF build # "ok"
              THEN /\ last' = Served("report", args, 500, InternalServerError, FALSE, "none")
                   /\ files' = files
              ELSE /\ last' = Served("report", args, 200,
                                     [file_url |-> ResultsUrl(file_name)], FALSE, "none")
                   /\ files' = files \cup {file_path}
  /\ UNCHANGED <<detections, feedback, model, clock, pd, chat, forum, pages>>

\* GET /forum
GetForumPosts ==
  /\ last' = Served("forum", [method |-> "GET"], 200,
                    [posts |-> [i \in 1..Len(forum) |->
                                  [id |-> forum[i].id, user |-> forum[i].user,
                                   title |-> forum[i].title, content |-> forum[i].content,
                                   created_at |-> forum[i].created_at]]],
                    FALSE, "ok")
  /\ UNCHANGED <<detections, feedback, files, model, clock, pd, chat, forum, pages>>

\* POST /forum with the keys user, title and content
AddForumPost ==
  \E complete \in BOOLEAN, db \in {"ok", "commit_fails"} :
    LET args == [method |-> "POST", complete |-> complete]
    IN
    IF ~complete \/ db = "commit_fails"
    THEN /\ last' = Unclosed(Served("forum", args, 500, InternalServerError, FALSE,
                                    IF complete THEN db ELSE "left_open"))
         /\ UNCHANGED <<detections, feedback, files, model, clock, pd, chat, forum, pages>>
    ELSE /\ Len(forum) < MaxPosts
         /\ forum' = Append(forum, [id |-> Len(forum) + 1, user |-> "farmer",
                                    title |-> "Brown spots", content |-> "What helps?",
                                    created_at |-> clock])
         /\ last' = Served("forum", args, 200, MessageBody("Post added"), FALSE, db)
         /\ UNCHANGED <<detections, feedback, files, model, clock, pd, chat, pages>>

\* the bodies sent to POST /chatbot: with and without the key "message"
ChatbotBodies ==
  {[keys |-> {}, message |-> <<>>],
   [keys |-> {"message"}, message |-> <<"s","e","v","e","r","e"," ","t","u","n","g","r","o">>]}

\* POST /chatbot
ChatbotRequest ==
  /\ \E data \in ChatbotBodies :
       IF "message" \notin data.keys
       THEN last' = Served("chatbot", data, 500, InternalServerError, FALSE, "none")
       ELSE last' = Served("chatbot", data, 200,
                           [response |-> chatbot_response(data.message)], FALSE, "none")
  /\ UNCHANGED <<detections, feedback, files, model, clock, pd, chat, forum, pages>>

\* POST /contact: whatever goes wrong, a missing key included, is answered
\* with an error payload
ContactExpert ==
  /\ \E sent \in BOOLEAN :
       last' = Served("contact", [none |-> TRUE], 200,
                      IF sent THEN MessageBody("Message sent to expert")
                      ELSE ErrorBody("Failed to send message"),
                      FALSE, "none")
  /\ UNCHANGED <<detections, feedback, files, model, clock, pd, chat, forum, pages>>

NextApi ==
  \/ Detect
  \/ GetHistory
  \/ DeleteDetection
  \/ SubmitFeedback
  \/ AdminOverview
  \/ GenerateReport
  \/ GetForumPosts
  \/ AddForumPost
  \/ ChatbotRequest
  \/ ContactExpert

SpecApi == Init /\ [][NextApi]_vars

\* C15: whatever endpoint is called, every row of the store keeps all its
\* fields, severity included; a row leaves the store only in a DELETE
\* /delete/{id} of its id and enters it only in a POST /detect that returns
\* its id or whose refresh failed.
C15_RowsNeverMutated ==
  [][/\ \A row \in detections :
          \/ row \in detections'
          \/ /\ last'.op = "delete"
             /\ last'.args.detection_id = row.id
             /\ row.id \notin Ids(detections')
     /\ \A row \in detections' \ detections :
          /\ last'.op = "detect"
          /\ last'.db \in {"ok", "refresh_fails"}
          /\ last'.db = "ok" => row.id = last'.body.detection_id
          /\ row.id \notin Ids(detections)
     /\ Cardinality(detections' \ detections) <= 1]_vars

\* a Rice Blast row is still in the store, unchanged, after feedback, a forum
\* post, a report and an admin overview that lists it
C15_Witness ==
  /\ last.op = "admin"
  /\ last.status = 200
  /\ Len(forum) = 1
  /\ Len(feedback) = 1
  /\ \E f \in files : Basename(f) = ReportName(Uuids[1])
  /\ \E row \in detections :
       /\ row.disease = RiceBlast
       /\ feedback[1].detection_id = Str(row.id)
       /\ \E i \in 1..Len(last.body.overview) :
            /\ last.body.overview[i].id = row.id
            /\ last.body.overview[i].severity = row.severity
            /\ Len(last.body.overview[i].feedback) = 1

\* C17: GET /admin/overview answers 200 with the detection and feedback data
\* exactly when the X-Admin-Token header is present and equal to ADMIN_TOKEN;
\* otherwise it answers 401 with the detail "Unauthorized" only and opens no
\* database session.
C17_AdminTokenGate ==
  last.op = "admin" =>
    IF last.args.token.present /\ last.args.token.value = admin_token
    THEN /\ last.status = 200
         /\ last.db = "ok"
         /\ {last.body.overview[i].id : i \in 1..Len(last.body.overview)} = Ids(detections)
    ELSE /\ last.status = 401
         /\ last.body = [detail |-> "Unauthorized"]
         /\ last.db = "none"

\* a token that differs from ADMIN_TOKEN only in case is refused while the
\* store holds a detection and a review
C17_Witness ==
  /\ last.op = "admin"
  /\ last.args.token.present
  /\ last.args.token.value # admin_token
  /\ last.status = 401
  /\ detections # {}
  /\ feedback # <<>>

ClientNames ==
  Filenames \cup {<<DotDot, UploadNames[1]>>, << <<>>, <<"tmp">>, UploadNames[1] >>}

DetectAnyName == DetectFrom(ClientNames)

NextUpload ==
  \/ DetectAnyName
  \/ DeleteDetection

SpecUpload == Init /\ [][NextUpload]_vars

\* path lies inside directory dir
Inside(path, dir) == Len(path) > Len(dir) /\ SubSeq(path, 1, Len(dir)) = dir

\* C16: every file a POST /detect writes for an accepted upload, the upload
\* and the annotated image, lies inside the uploads directory whatever the
\* file name of the request.
C16_UploadInsideUploads ==
  [][last'.op = "detect" => \A f \in files' \ files : Inside(f, UPLOAD_DIR)]_vars

\* C21: every request that opened a database session has closed it when it
\* ends, on the success path and on every error path.
C21_SessionsClosed == last.closed

(***************************************************************************)
(* js/upload.js: the upload page.  The repository holds two versions of     *)
(* detectDisease: js/upload.js stores whatever JSON the server answers, the *)
(* other one checks response.ok and result.disease first.  A page runs one  *)
(* of them.  calls holds the invocations of detectDisease that wait for     *)
(* fetch or for response.json().  localStorage.riceguard_result is <<>>     *)
(* when the key is absent and <<value>> when it is set.                     *)
(***************************************************************************)
MaxCalls == 2
MaxReaders == 2

UploadScripts == {"js/upload.js", "detectDisease with validation"}

\* what fetch("/detect") can resolve to: a stored detection, a detection
\* whose save failed, an {error} payload, a 422 with a JSON detail, a 500
\* with a text body
DetectAnswers ==
  {[ok |-> TRUE, json |-> TRUE, body |-> WithDetectionId(HealthyResponse(LeafJpg), 1)],
   [ok |-> TRUE, json |-> TRUE, body |-> HealthyResponse(LeafJpg)],
   [ok |-> TRUE, json |-> TRUE, body |-> PredictionFailed],
   [ok |-> FALSE, json |-> TRUE, body |-> DetailBody("Field required")],
   [ok |-> FALSE, json |-> FALSE, body |-> InternalServerError]}

\* the page as the script finds it when it is loaded: no file chosen, the
\* detect button hidden, no FileReader at work
UploadPageLoaded(script) ==
  [pc |-> "loaded", script |-> script, location |-> "upload.html",
   selectedFile |-> <<>>, hidden |-> TRUE, readers |-> 0,
   label |-> "Detect Disease ->", disabled |-> FALSE, calls |-> <<>>]

\* the finally clause of detectDisease, the call at place i being over
Settled(page, i) ==
  [page EXCEPT !.label = "Detect Disease", !.disabled = FALSE,
               !.calls = SubSeq(page.calls, 1, i - 1)
                         \o SubSeq(page.calls, i + 1, Len(page.calls))]

\* a slip: the button stays enabled while the request is under way
Requesting_enabled(page) ==
  [page EXCEPT !.label = "Detecting...",
               !.calls = Append(page.calls, [pc |-> "fetch"])]

\* detectDisease up to its first await: the button is relabelled and
\* disabled, the request is sent
Requesting(page) ==
  [page EXCEPT !.label = "Detecting...", !.disabled = TRUE,
               !.calls = Append(page.calls, [pc |-> "fetch"])]

FileTypes == {"image/jpeg", "image/gif", "text/plain"}

\* file.type.startsWith("image/")
IsImageType(type) == type \in {"image/jpeg", "image/gif"}

\* the change handler of the file input: an image becomes the selected file
\* and a FileReader starts on it
SelectFile ==
  /\ uploadPage.pc = "loaded"
  /\ uploadPage.location = "upload.html"
  /\ \E type \in FileTypes :
       IF IsImageType(type)
       THEN /\ uploadPage.readers < MaxReaders
            /\ uploadPage' = [uploadPage EXCEPT !.selectedFile = <<type>>,
                                                !.readers = @ + 1]
       ELSE UNCHANGED uploadPage
  /\ UNCHANGED <<detections, feedback, files, model, clock, last, pd, chat, forum,
                 localStorage, resultPage, historyPage, registerPage>>

\* reader.onload: the preview and the detect button are shown
ReaderLoads ==
  /\ uploadPage.pc = "loaded"
  /\ uploadPage.location = "upload.html"
  /\ uploadPage.readers > 0
  /\ uploadPage' = [uploadPage EXCEPT !.readers = @ - 1, !.hidden = FALSE]
  /\ UNCHANGED <<detections, feedback, files, model, clock, last, pd, chat, forum,
                 localStorage, resultPage, historyPage, registerPage>>

\* removeImage, on the button inside the preview
RemoveImage ==
  /\ uploadPage.pc = "loaded"
  /\ uploadPage.location = "upload.html"
  /\ ~uploadPage.hidden
  /\ uploadPage' = [uploadPage EXCEPT !.selectedFile = <<>>, !.hidden = TRUE]
  /\ UNCHANGED <<detections, feedback, files, model, clock, last, pd, chat, forum,
                 localStorage, resultPage, historyPage, registerPage>>

\* a click on the detect button: a hidden or disabled button gets no click
ClickDetect ==
  /\ uploadPage.pc = "loaded"
  /\ uploadPage.location = "upload.html"
  /\ ~uploadPage.hidden
  /\ ~uploadPage.disabled
  /\ Len(uploadPage.calls) < MaxCalls
  /\ IF uploadPage.selectedFile = <<>>
     THEN UNCHANGED <<uploadPage, localStorage>>
     ELSE /\ localStorage' = [localStorage EXCEPT !.riceguard_result = <<>>]
          /\ uploadPage' = Requesting(uploadPage)
  /\ UNCHANGED <<detections, feedback, files, model, clock, last, pd, chat, forum,
                 resultPage, historyPage, registerPage>>

\* whether the script checks the answer before it stores it
Validates(page) == page.script = "detectDisease with validation"

\* fetch settles for the call at place i: it rejects on a network failure,
\* resolves with the response otherwise
FetchSettles ==
  /\ uploadPage.pc = "loaded"
  /\ uploadPage.location = "upload.html"
  /\ \E i \in 1..Len(uploadPage.calls) :
       /\ uploadPage.calls[i].pc = "fetch"
       /\ \/ uploadPage' = Settled(uploadPage, i)
          \/ \E answer \in DetectAnswers :
               uploadPage' =
                 IF Validates(uploadPage) /\ ~answer.ok
                 THEN Settled(uploadPage, i)
                 ELSE [uploadPage EXCEPT !.calls[i] = [pc |-> "json", response |-> answer]]
  /\ UNCHANGED <<detections, feedback, files, model, clock, last, pd, chat, forum,
                 localStorage, resultPage, historyPage, registerPage>>

\* response.json() settles for the call at place i: it rejects when the body
\* is no JSON; otherwise the result is stored and the page moves on to
\* result.html, and the finally clause runs
JsonSettles ==
  /\ uploadPage.pc = "loaded"
  /\ uploadPage.location = "upload.html"
  /\ \E i \in 1..Len(uploadPage.calls) :
       /\ uploadPage.calls[i].pc = "json"
       /\ LET answer == uploadPage.calls[i].response
          IN  IF \/ ~answer.json
                 \/ Validates(uploadPage) /\ "disease" \notin DOMAIN answer.body
              THEN /\ uploadPage' = Settled(uploadPage, i)
                   /\ UNCHANGED localStorage
              ELSE /\ localStorage' =
                        [localStorage EXCEPT !.riceguard_result = <<answer.body>>]
                   /\ uploadPage' =
                        [Settled(uploadPage, i) EXCEPT !.location = "result.html"]
  /\ UNCHANGED <<detections, feedback, files, model, clock, last, pd, chat, forum,
                 resultPage, historyPage, registerPage>>

\* the user comes back from result.html: the page is loaded anew
BackToUpload ==
  /\ uploadPage.pc = "loaded"
  /\ uploadPage.location = "result.html"
  /\ uploadPage' = UploadPageLoaded(uploadPage.script)
  /\ UNCHANGED <<detections, feedback, files, model, clock, last, pd, chat, forum,
                 localStorage, resultPage, historyPage, registerPage>>

InitUploadPage ==
  /\ detections = {}
  /\ feedback = <<>>
  /\ forum = <<>>
  /\ files = {}
  /\ model = 0
  /\ clock = 0
  /\ last = Idle
  /\ pd = Idle
  /\ chat = Idle
  /\ resultPage = Idle
  /\ historyPage = Idle
  /\ registerPage = Idle
  /\ \E script \in UploadScripts : uploadPage = UploadPageLoaded(script)
  /\ \E old \in {<<>>, <<HealthyResponse(LeafJpg)>>} :
       localStorage = [riceguard_result |-> old]

NextUploadPage ==
  \/ SelectFile
  \/ ReaderLoads
  \/ RemoveImage
  \/ ClickDetect
  \/ FetchSettles
  \/ JsonSettles
  \/ BackToUpload

SpecUploadPage == InitUploadPage /\ [][NextUploadPage]_vars

\* the answer a call is about to settle with is a detection
IsDetection(call) ==
  /\ call.pc = "json"
  /\ call.response.json
  /\ "disease" \in DOMAIN call.response.body

\* C24: when the request of the upload page settles with something that is
\* not a detection (fetch rejects, the body is no JSON, or the JSON has no
\* disease field), riceguard_result stays absent and the page stays on
\* upload.html.
C24_FailureNeverSaved ==
  [][(/\ uploadPage.calls # <<>>
      /\ uploadPage'.calls = <<>>
      /\ ~IsDetection(uploadPage.calls[1])) =>
        /\ localStorage'.riceguard_result = <<>>
        /\ uploadPage'.location = "upload.html"]_vars

\* C25: the detect button is disabled exactly while a request of the page is
\* under way and at most one is; it reads "Detecting..." meanwhile, and the
\* step that settles the request leaves it enabled with the label
\* "Detect Disease".
C25_ButtonDisabledWhileInFlight ==
  /\ [](uploadPage.pc = "loaded" =>
          /\ uploadPage.disabled <=> uploadPage.calls # <<>>
          /\ Len(uploadPage.calls) <= 1
          /\ uploadPage.disabled => uploadPage.label = "Detecting...")
  /\ [][Len(uploadPage'.calls) < Len(uploadPage.calls) =>
          /\ ~uploadPage'.disabled
          /\ uploadPage'.label = "Detect Disease"]_vars

\* the server answered {error: "Prediction failed"}, the body is being read
C25_Witness ==
  /\ uploadPage.pc = "loaded"
  /\ uploadPage.disabled
  /\ Len(uploadPage.calls) = 1
  /\ uploadPage.calls[1].pc = "json"
  /\ uploadPage.calls[1].response.body = PredictionFailed

\* ---------------------------------------------------------------------
\* The result page (js/result.js)
\* ---------------------------------------------------------------------

\* what another page leaves under riceguard_result: a stored detection, a
\* detection whose save failed, an entry of the history list, an {error}
\* payload
StoredResults ==
  {WithDetectionId(HealthyResponse(LeafJpg), 1),
   HealthyResponse(LeafJpg),
   HistoryEntry(DetectionRow(1, HealthyResponse(LeafJpg), 0)),
   PredictionFailed}

\* the values of the rating radio buttons
RatingValues == {"1", "2", "3", "4", "5"}

Digits == <<"0", "1", "2", "3", "4", "5", "6", "7", "8", "9">>

\* parseInt on the text of one digit
ParseInt(text) == CHOOSE n \in 0..9 : Digits[n + 1] = text

CommentTexts == {"", "wrong disease"}

\* JSON.stringify({detection_id, rating, comments}): an undefined
\* detection_id leaves no key
FeedbackBody(result, rating, comments) ==
  IF "detection_id" \in DOMAIN result
  THEN [detection_id |-> result.detection_id, rating |-> ParseInt(rating),
        comments |-> comments]
  ELSE [rating |-> ParseInt(rating), comments |-> comments]

\* a slip: only the rating is required
Missing_rating_only(result, rating) == rating = <<>>

\* the two early returns of the submit handler
Missing(result, rating) ==
  \/ rating = <<>>
  \/ "detection_id" \notin DOMAIN result

\* another page writes or removes the key (setItem in detectDisease and
\* viewResult, removeItem in detectDisease)
StoreResult ==
  /\ \E stored \in {<<>>} \cup {<<r>> : r \in StoredResults} :
       localStorage' = [localStorage EXCEPT !.riceguard_result = stored]
  /\ UNCHANGED <<detections, feedback, files, model, clock, last, pd, chat, forum,
                 uploadPage, resultPage, historyPage, registerPage>>

\* result.html is loaded: without a result that names a disease the script
\* sends the browser to index.html
LoadResultPage ==
  /\ LET stored == localStorage.riceguard_result
     IN  resultPage' =
           IF stored = <<>> \/ "disease" \notin DOMAIN stored[1]
           THEN [pc |-> "left", location |-> "index.html"]
           ELSE [pc |-> "loaded", location |-> "result.html", result |-> stored[1],
                 rating |-> <<>>, comments |-> "", calls |-> <<>>]
  /\ UNCHANGED <<detections, feedback, files, model, clock, last, pd, chat, forum,
                 localStorage, uploadPage, historyPage, registerPage>>

CheckRating ==
  /\ resultPage.pc = "loaded"
  /\ \E value \in RatingValues : resultPage' = [resultPage EXCEPT !.rating = <<value>>]
  /\ UNCHANGED <<detections, feedback, files, model, clock, last, pd, chat, forum,
                 localStorage, uploadPage, historyPage, registerPage>>

TypeComments ==
  /\ resultPage.pc = "loaded"
  /\ \E text \in CommentTexts : resultPage' = [resultPage EXCEPT !.comments = text]
  /\ UNCHANGED <<detections, feedback, files, model, clock, last, pd, chat, forum,
                 localStorage, uploadPage, historyPage, registerPage>>

\* the submit handler of feedbackForm up to its await
SubmitFeedbackForm ==
  /\ resultPage.pc = "loaded"
  /\ Len(resultPage.calls) < MaxCalls
  /\ resultPage' =
       IF Missing(resultPage.result, resultPage.rating)
       THEN resultPage
       ELSE [resultPage EXCEPT !.calls =
               Append(@, FeedbackBody(resultPage.result, resultPage.rating[1],
                                      resultPage.comments))]
  /\ UNCHANGED <<detections, feedback, files, model, clock, last, pd, chat, forum,
                 localStorage, uploadPage, historyPage, registerPage>>

\* the POST /feedback at place i settles: on an ok response the form is
\* reset, otherwise (a rejected fetch, a response that is not ok) it is left
FeedbackSettles ==
  /\ resultPage.pc = "loaded"
  /\ \E i \in 1..Len(resultPage.calls), ok \in BOOLEAN :
       LET rest == SubSeq(resultPage.calls, 1, i - 1)
                   \o SubSeq(resultPage.calls, i + 1, Len(resultPage.calls))
       IN  resultPage' =
             IF ok
             THEN [resultPage EXCEPT !.calls = rest, !.rating = <<>>, !.comments = ""]
             ELSE [resultPage EXCEPT !.calls = rest]
  /\ UNCHANGED <<detections, feedback, files, model, clock, last, pd, chat, forum,
                 localStorage, uploadPage, historyPage, registerPage>>

InitResultPage ==
  /\ detections = {}
  /\ feedback = <<>>
  /\ forum = <<>>
  /\ files = {}
  /\ model = 0
  /\ clock = 0
  /\ last = Idle
  /\ pd = Idle
  /\ chat = Idle
  /\ uploadPage = Idle
  /\ resultPage = Idle
  /\ historyPage = Idle
  /\ registerPage = Idle
  /\ localStorage = [riceguard_result |-> <<>>]

NextResultPage ==
  \/ StoreResult
  \/ LoadResultPage
  \/ CheckRating
  \/ TypeComments
  \/ SubmitFeedbackForm
  \/ FeedbackSettles

SpecResultPage == InitResultPage /\ [][NextResultPage]_vars

HistoryScripts == {"js/history.js", "history.js with row index"}

BlastJpg == <<"blast.jpg">>

\* the store the page is opened on: a healthy leaf stored first, a leaf with
\* one box of rice blast stored after it
StoredDetections ==
  {DetectionRow(1, HealthyResponse(LeafJpg), 0),
   DetectionRow(2, DiseaseResponse(BlastJpg,
                     [none |-> FALSE, boxes |-> <<[cls |-> 3, conf |-> 92000]>>]), 1)}

\* what the user types into searchInput
SearchTexts == {<<>>, <<"H", "E", "A">>, <<"s", "m", "u", "t">>}

\* the options of severityFilter the model selects
SeverityOptions == {"all", "None", "Mild"}

\* allData.filter(...) of filterData
Filtered(allData, search, severity) ==
  SelectSeq(allData,
            LAMBDA d : /\ Contains(Lower(d.disease), Lower(search))
                       /\ severity # "all" => d.severity = severity)

\* render(rows): each table row holds its item and its place in rows
Render(page, rows) ==
  [page EXCEPT !.rows = << [k \in 1..Len(rows) |-> [item |-> rows[k], index |-> k]] >>,
               !.tableWrapperHidden = (Len(rows) = 0),
               !.emptyStateHidden = (Len(rows) # 0)]

filterData(page) == Render(page, Filtered(page.allData, page.search, page.severity))

\* the page as the script leaves it at its end: loadHistory was called
HistoryPageLoaded(script) ==
  [pc |-> "loaded", script |-> script, location |-> "history.html",
   allData |-> <<>>, search |-> <<>>, severity |-> "all", showEmpty |-> FALSE,
   rows |-> <<>>, tableWrapperHidden |-> FALSE, emptyStateHidden |-> TRUE,
   calls |-> << [op |-> "history", pc |-> "sent"] >>]

Without(calls, i) == SubSeq(calls, 1, i - 1) \o SubSeq(calls, i + 1, Len(calls))

OnHistoryPage == historyPage.pc = "loaded" /\ historyPage.location = "history.html"

\* the table rows on display
Displayed(page) == IF page.rows = <<>> THEN <<>> ELSE page.rows[1]

SearchInput ==
  /\ OnHistoryPage
  /\ \E text \in SearchTexts :
       historyPage' = filterData([historyPage EXCEPT !.search = text])
  /\ UNCHANGED <<detections, feedback, files, model, clock, last, pd, chat, forum,
                 localStorage, uploadPage, resultPage, registerPage>>

SeverityChange ==
  /\ OnHistoryPage
  /\ \E value \in SeverityOptions :
       historyPage' = filterData([historyPage EXCEPT !.severity = value])
  /\ UNCHANGED <<detections, feedback, files, model, clock, last, pd, chat, forum,
                 localStorage, uploadPage, resultPage, registerPage>>

\* the click handler of toggleEmpty
ToggleEmpty ==
  /\ OnHistoryPage
  /\ LET showEmpty == ~historyPage.showEmpty
         toggled == [historyPage EXCEPT !.showEmpty = showEmpty]
     IN  historyPage' =
           IF historyPage.script = "js/history.js"
           THEN [toggled EXCEPT !.tableWrapperHidden = showEmpty,
                                !.emptyStateHidden = ~showEmpty]
           ELSE IF showEmpty
           THEN [toggled EXCEPT !.tableWrapperHidden = TRUE,
                                !.emptyStateHidden = FALSE]
           ELSE filterData(toggled)
  /\ UNCHANGED <<detections, feedback, files, model, clock, last, pd, chat, forum,
                 localStorage, uploadPage, resultPage, registerPage>>

\* the view button of the table row at place k, the table being visible
ViewResult ==
  /\ OnHistoryPage
  /\ ~historyPage.tableWrapperHidden
  /\ \E k \in 1..Len(Displayed(historyPage)) :
       LET row == Displayed(historyPage)[k]
           item == IF historyPage.script = "js/history.js"
                   THEN row.item
                   ELSE historyPage.allData[row.index]
       IN  /\ localStorage' = [localStorage EXCEPT !.riceguard_result = <<item>>]
           /\ historyPage' = [pc |-> "left", script |-> historyPage.script,
                              location |-> "result.html", shown |-> row.item]
  /\ UNCHANGED <<detections, feedback, files, model, clock, last, pd, chat, forum,
                 uploadPage, resultPage, registerPage>>

\* the user comes back to history.html: the script runs from its start
BackToHistory ==
  /\ historyPage.pc = "left"
  /\ historyPage' = HistoryPageLoaded(historyPage.script)
  /\ UNCHANGED <<detections, feedback, files, model, clock, last, pd, chat, forum,
                 localStorage, uploadPage, resultPage, registerPage>>

\* the delete button of the table row at place k: deleteDetection up to its
\* await, the user confirming or not
ClickDelete ==
  /\ OnHistoryPage
  /\ ~historyPage.tableWrapperHidden
  /\ Len(historyPage.calls) < MaxCalls
  /\ \E k \in 1..Len(Displayed(historyPage)), confirm \in BOOLEAN :
       historyPage' =
         IF confirm
         THEN [historyPage EXCEPT !.calls =
                 Append(@, [op |-> "delete", pc |-> "sent",
                            id |-> Displayed(historyPage)[k].item.id])]
         ELSE historyPage
  /\ UNCHANGED <<detections, feedback, files, model, clock, last, pd, chat, forum,
                 localStorage, uploadPage, resultPage, registerPage>>

\* the server handles the request at place i of the page's calls
ServeHistoryPage ==
  /\ OnHistoryPage
  /\ \E i \in 1..Len(historyPage.calls) :
       LET call == historyPage.calls[i]
       IN  /\ call.pc = "sent"
           /\ IF call.op = "history"
              THEN /\ \E history \in get_history(detections) :
                        historyPage' = [historyPage EXCEPT !.calls[i] =
                          [op |-> "history", pc |-> "answered", body |-> history]]
                   /\ UNCHANGED <<detections, files>>
              ELSE LET found == FindDetection(detections, call.id)
                   IN  IF found = {}
                       THEN /\ historyPage' = [historyPage EXCEPT !.calls[i] =
                                 [op |-> "delete", pc |-> "answered", id |-> call.id,
                                  ok |-> FALSE]]
                            /\ UNCHANGED <<detections, files>>
                       ELSE \E detection \in found, db \in {"ok", "commit_fails"} :
                              /\ files' = RemoveImages(files, detection, "ok")
                              /\ detections' = IF db = "ok"
                                               THEN DeleteRow(detections, detection)
                                               ELSE detections
                              /\ historyPage' = [historyPage EXCEPT !.calls[i] =
                                   [op |-> "delete", pc |-> "answered", id |-> call.id,
                                    ok |-> (db = "ok")]]
  /\ UNCHANGED <<feedback, model, clock, last, pd, chat, forum,
                 localStorage, uploadPage, resultPage, registerPage>>

\* allData.splice(dataIndex, 1) for the first item of that id
Spliced(allData, id) ==
  IF \E j \in 1..Len(allData) : allData[j].id = id
  THEN Without(allData, CHOOSE j \in 1..Len(allData) :
                          /\ allData[j].id = id
                          /\ \A h \in 1..(j - 1) : allData[h].id # id)
  ELSE allData

\* loadHistory after its awaits, the answer at place i having arrived
Loaded(page, i) ==
  filterData([page EXCEPT !.allData = page.calls[i].body,
                          !.calls = Without(page.calls, i)])

\* an answer reaches the page, in any order
AnswerArrives ==
  /\ OnHistoryPage
  /\ \E i \in 1..Len(historyPage.calls) :
       LET call == historyPage.calls[i]
       IN  /\ call.pc = "answered"
           /\ historyPage' =
                IF call.op = "history" THEN Loaded(historyPage, i)
                ELSE IF historyPage.script = "js/history.js"
                THEN [historyPage EXCEPT !.calls[i] = [op |-> "history", pc |-> "sent"]]
                ELSE IF call.ok
                THEN filterData([historyPage EXCEPT
                                   !.allData = Spliced(@, call.id),
                                   !.calls = Without(@, i)])
                ELSE [historyPage EXCEPT !.calls = Without(@, i)]
  /\ UNCHANGED <<detections, feedback, files, model, clock, last, pd, chat, forum,
                 localStorage, uploadPage, resultPage, registerPage>>

\* fetch rejects for the call at place i: loadHistory renders no rows,
\* deleteDetection only tells the user
FetchRejects ==
  /\ OnHistoryPage
  /\ \E i \in 1..Len(historyPage.calls) :
       historyPage' =
         IF historyPage.calls[i].op = "history"
         THEN Render([historyPage EXCEPT !.calls = Without(@, i)], <<>>)
         ELSE [historyPage EXCEPT !.calls = Without(@, i)]
  /\ UNCHANGED <<detections, feedback, files, model, clock, last, pd, chat, forum,
                 localStorage, uploadPage, resultPage, registerPage>>

InitHistoryPage ==
  /\ detections = StoredDetections
  /\ feedback = <<>>
  /\ forum = <<>>
  /\ files = {}
  /\ model = 0
  /\ clock = 0
  /\ last = Idle
  /\ pd = Idle
  /\ chat = Idle
  /\ uploadPage = Idle
  /\ resultPage = Idle
  /\ registerPage = Idle
  /\ localStorage = [riceguard_result |-> <<>>]
  /\ \E script \in HistoryScripts : historyPage = HistoryPageLoaded(script)

NextHistoryPage ==
  \/ SearchInput
  \/ SeverityChange
  \/ ToggleEmpty
  \/ ViewResult
  \/ BackToHistory
  \/ ClickDelete
  \/ ServeHistoryPage
  \/ AnswerArrives
  \/ FetchRejects

SpecHistoryPage == InitHistoryPage /\ [][NextHistoryPage]_vars

\* C27: on the page that hands a row index to viewResult, the view button of
\* a displayed row stores the detection shown in that row under
\* riceguard_result, whatever the search text and the severity filter.
C27_ViewStoresShownRow ==
  (historyPage.pc = "left" /\ historyPage.script = "history.js with row index") =>
    localStorage.riceguard_result = <<historyPage.shown>>

\* C28: on the page of js/history.js, once the table was rendered, whenever
\* no row is on display the empty-state panel is visible and the table
\* wrapper is hidden.
C28_EmptyListShowsEmptyState ==
  (/\ OnHistoryPage
   /\ historyPage.script = "js/history.js"
   /\ historyPage.rows # <<>>
   /\ Displayed(historyPage) = <<>>) =>
    /\ ~historyPage.emptyStateHidden
    /\ historyPage.tableWrapperHidden

\* the page of js/history.js, every fetch being answered
InitHistoryAnswered ==
  /\ InitHistoryPage
  /\ historyPage.script = "js/history.js"

NextHistoryAnswered ==
  \/ SearchInput
  \/ SeverityChange
  \/ ToggleEmpty
  \/ ViewResult
  \/ BackToHistory
  \/ ClickDelete
  \/ ServeHistoryPage
  \/ AnswerArrives

SpecHistoryAnswered == InitHistoryAnswered /\ [][NextHistoryAnswered]_vars

\* C29: once every delete request and every history load of the page has
\* been answered, allData is the server's list of detections.
C29_AllDataIsServerList ==
  (OnHistoryPage /\ historyPage.calls = <<>>) =>
    historyPage.allData \in get_history(detections)

\* ---------------------------------------------------------------------
\* The register page
\* ---------------------------------------------------------------------

StrongPassword == <<"A", "b", "c", "d", "e", "f", "g", "1">>

\* what the user has in the password and the confirm field
FieldTexts ==
  {<<>>, <<"a">>, <<"A", "1">>, <<"a", "b", "c", "d", "e", "f", "g", "h">>,
   StrongPassword, <<"A", "b", "c", "d", "e", "f", "g", "2">>}

IsDigit(c) == \E i \in 1..Len(Digits) : Digits[i] = c

\* the four checks of validatePassword
PasswordChecks(val) ==
  [length |-> Len(val) >= 8,
   upper  |-> \E i \in 1..Len(val) : IsUpper(val[i]),
   lower  |-> \E i \in 1..Len(val) : IsLower(val[i]),
   number |-> \E i \in 1..Len(val) : IsDigit(val[i])]

\* Object.values(checks).every(Boolean)
EveryCheck(checks) == checks.length /\ checks.upper /\ checks.lower /\ checks.number

\* the match computed by validateMatch
Match(page) == page.password = page.confirmPassword /\ page.confirmPassword # <<>>

\* toggleRegisterButton: validatePassword marks the rules; validateMatch,
\* which sets the message, runs only when the password passed (&&); the
\* checkbox is read only when both passed
toggleRegisterButton(page) ==
  LET checks == PasswordChecks(page.password)
      valid  == EveryCheck(checks)
      marked == [page EXCEPT !.rules = checks]
      shown  == IF valid THEN [marked EXCEPT !.matchMsgHidden = Match(page)] ELSE marked
  IN  [shown EXCEPT !.registerBtnDisabled = ~(valid /\ Match(page) /\ page.terms)]

\* the page as the markup has it: every rule crossed, the message hidden,
\* the button disabled
RegisterPageLoaded ==
  [pc |-> "loaded", location |-> "register.html",
   password |-> <<>>, confirmPassword |-> <<>>, terms |-> FALSE,
   rules |-> [length |-> FALSE, upper |-> FALSE, lower |-> FALSE, number |-> FALSE],
   matchMsgHidden |-> TRUE, registerBtnDisabled |-> TRUE]

OnRegisterPage == registerPage.pc = "loaded" /\ registerPage.location = "register.html"

PasswordInput ==
  /\ OnRegisterPage
  /\ \E text \in FieldTexts :
       registerPage' = toggleRegisterButton([registerPage EXCEPT !.password = text])
  /\ UNCHANGED <<detections, feedback, files, model, clock, last, pd, chat, forum,
                 localStorage, uploadPage, resultPage, historyPage>>

ConfirmInput ==
  /\ OnRegisterPage
  /\ \E text \in FieldTexts :
       registerPage' = toggleRegisterButton([registerPage EXCEPT !.confirmPassword = text])
  /\ UNCHANGED <<detections, feedback, files, model, clock, last, pd, chat, forum,
                 localStorage, uploadPage, resultPage, historyPage>>

TermsChange ==
  /\ OnRegisterPage
  /\ registerPage' = toggleRegisterButton([registerPage EXCEPT !.terms = ~@])
  /\ UNCHANGED <<detections, feedback, files, model, clock, last, pd, chat, forum,
                 localStorage, uploadPage, resultPage, historyPage>>

\* the submit handler of registerForm; a disabled button submits nothing
SubmitRegister ==
  /\ OnRegisterPage
  /\ ~registerPage.registerBtnDisabled
  /\ registerPage' = [registerPage EXCEPT !.location = "login.html"]
  /\ UNCHANGED <<detections, feedback, files, model, clock, last, pd, chat, forum,
                 localStorage, uploadPage, resultPage, historyPage>>

\* the user opens register.html again
BackToRegister ==
  /\ registerPage.pc = "loaded"
  /\ registerPage.location = "login.html"
  /\ registerPage' = RegisterPageLoaded
  /\ UNCHANGED <<detections, feedback, files, model, clock, last, pd, chat, forum,
                 localStorage, uploadPage, resultPage, historyPage>>

InitRegisterPage ==
  /\ detections = {}
  /\ feedback = <<>>
  /\ forum = <<>>
  /\ files = {}
  /\ model = 0
  /\ clock = 0
  /\ last = Idle
  /\ pd = Idle
  /\ chat = Idle
  /\ uploadPage = Idle
  /\ resultPage = Idle
  /\ historyPage = Idle
  /\ localStorage = [riceguard_result |-> <<>>]
  /\ registerPage = RegisterPageLoaded

NextRegisterPage ==
  \/ PasswordInput
  \/ ConfirmInput
  \/ TermsChange
  \/ SubmitRegister
  \/ BackToRegister

SpecRegisterPage == InitRegisterPage /\ [][NextRegisterPage]_vars

\* C30: after every input event on the password or the confirm field and
\* every change of the terms checkbox, the mismatch message is hidden
\* exactly when the confirm field is non-empty and equal to the password.
C30_MismatchMessageFollowsFields ==
  [][(/\ OnRegisterPage
      /\ registerPage'.location = "register.html"
      /\ registerPage' # registerPage) =>
        (registerPage'.matchMsgHidden <=> Match(registerPage'))]_vars

=============================================================================
